---- MODULE Spec2Model ----
(***************************************************************************)
(* Model of the EJDB2 HTTP/WebSocket gateway, src/src/jbr/jbr.c.            *)
(*                                                                         *)
(* One HTTP request is processed by _jbr_on_http_request: request parser   *)
(* (_jbr_fill_ctx), token gate, dispatch, operation handler.  A root query *)
(* is split where the code is split by the database callback interface:    *)
(* _jbr_on_query up to ejdb_exec, one _jbr_query_visitor call per result   *)
(* document, and the rest of _jbr_on_query after ejdb_exec has returned.   *)
(*                                                                         *)
(* Strings the code inspects byte by byte (method, path, token) are        *)
(* sequences of one-character strings.  Bodies, documents and error texts  *)
(* the code only hands to the database facade are abstract values.         *)
(***************************************************************************)
EXTENDS Integers, Sequences, FiniteSets, TLC

VARIABLES
  http,     \* the EJDB_HTTP options: access_token, access_token_len, read_anon
  db,       \* the documents of the database
  req,      \* the http_s of the request being served
  rctx,     \* its JBRCTX
  ux,       \* the EJDB_EXEC of a running ejdb_exec
  pc,       \* "idle", "exec" (inside ejdb_exec), "done" (handler returned)
  out,      \* the calls made on the response writer and the socket
  dbcalls,  \* the calls made on the database for this request
  route,    \* where _jbr_on_http_request took the request
  authed,   \* some request so far presented the configured token
  prev,     \* what the client was answered on its previous request
  opts,     \* EJDB_OPTS.http of jbr_start: enabled, blocking
  pjbr,     \* the handle *pjbr of the caller: "null" or "jbr"
  jbr,      \* the struct _JBR: its memory, terminated, rc
  barrier,  \* jbr->start_barrier
  fio,      \* the facil.io event loop
  tpc,      \* the position of every thread
  tl,       \* the locals of every thread
  life,     \* what the lifecycle has done so far
  ws        \* the WebSocket connection and its JBWCTX

\* the variables of the HTTP requests, of the lifecycle, of the WebSocket
HttpVars == <<http, db, req, rctx, ux, pc, out, dbcalls, route, authed, prev>>

LifeVars == <<opts, pjbr, jbr, barrier, fio, tpc, tl, life>>

WsVars == <<ws>>

vars == <<HttpVars, LifeVars, WsVars>>

----------------------------------------------------------------------------
(* Bounds of the model.                                                    *)

\* longest request path explored by the parser specification
MaxPathLen == 6
\* longest X-Access-Token header value explored
MaxTokLen == 2
\* document identifiers held by the database are 1..MaxId
MaxId == 2

----------------------------------------------------------------------------
(* Program constants.                                                      *)

\* jbr.c:73
JBR_HTTP_CHUNK_SIZE == 4096
\* jbr.c:80-87, jbr_method_t
JBR_GET == 1
JBR_PUT == 2
JBR_PATCH == 3
JBR_DELETE == 4
JBR_POST == 5
JBR_HEAD == 6
\* ejdb2.h, EJDB_COLLECTION_NAME_MAX_LEN; scaled down so that paths of
\* MaxPathLen bytes reach both sides of the limit
EJDB_COLLECTION_NAME_MAX_LEN == 2
\* jbl.h, JBNUMBUF_SIZE
JBNUMBUF_SIZE == 64

\* a null pointer / absent FIOBJ
NULL == <<"<null>">>
\* a FIOBJ of type FIOBJ_T_ARRAY: a header that occurred more than once
FIOBJ_ARRAY == <<"<array>">>

\* a null IWXSTR pointer, and the IWXSTR holding the pieces s
NULLX == [alloc |-> FALSE, s |-> <<>>]
Xstr(s) == [alloc |-> TRUE, s |-> s]

\* iwrc 0
OK == "OK"

----------------------------------------------------------------------------
(* C strings.                                                              *)

GET_ == <<"G", "E", "T">>
PUT_ == <<"P", "U", "T">>
POST_ == <<"P", "O", "S", "T">>
HEAD_ == <<"H", "E", "A", "D">>
PATCH_ == <<"P", "A", "T", "C", "H">>
DELETE_ == <<"D", "E", "L", "E", "T", "E">>

\* the byte at 1-based position i of the NUL terminated string s
CharAt(s, i) == IF i >= 1 /\ i <= Len(s) THEN s[i] ELSE "\\0"

\* strncmp(a, b, n) = 0; bytes past the terminator read as the terminator
StrnEq(a, b, n) == \A i \in 1..n : CharAt(a, i) = CharAt(b, i)

\* memcmp(a, b, n) = 0 for buffers holding at least n bytes
MemEq(a, b, n) == \A i \in 1..n : a[i] = b[i]

IsDigit(c) == c \in {"0", "1", "2", "3", "4", "5", "6", "7", "8", "9"}

IsSpace(c) == c \in {" ", "\t", "\n"}

DigitVal(c) ==
  CASE c = "0" -> 0 [] c = "1" -> 1 [] c = "2" -> 2 [] c = "3" -> 3
    [] c = "4" -> 4 [] c = "5" -> 5 [] c = "6" -> 6 [] c = "7" -> 7
    [] c = "8" -> 8 [] c = "9" -> 9

\* first position >= i of s that does not satisfy the class, Len(s)+1 if none
RECURSIVE SkipSpaces(_, _)
SkipSpaces(s, i) ==
  IF i <= Len(s) /\ IsSpace(s[i]) THEN SkipSpaces(s, i + 1) ELSE i

RECURSIVE SkipDigits(_, _)
SkipDigits(s, i) ==
  IF i <= Len(s) /\ IsDigit(s[i]) THEN SkipDigits(s, i + 1) ELSE i

\* value of the decimal digits s[i..j-1]
RECURSIVE DecValue(_, _, _)
DecValue(s, i, j) ==
  IF j <= i THEN 0 ELSE DecValue(s, i, j - 1) * 10 + DigitVal(s[j - 1])

\* strtoll(s, &eptr, 10): optional white space, optional sign, digits.
\* eptr is the 1-based position of the first byte not consumed; with no
\* digits nothing is consumed.  The paths explored hold at most MaxPathLen
\* bytes, so the value stays far below the range where strtoll clamps.
strtoll(s) ==
  LET a == SkipSpaces(s, 1)
      neg == CharAt(s, a) = "-"
      b == IF CharAt(s, a) \in {"-", "+"} THEN a + 1 ELSE a
      e == SkipDigits(s, b)
  IN IF e = b
       THEN [val |-> 0, eptr |-> 1]
       ELSE [val |-> IF neg THEN 0 - DecValue(s, b, e) ELSE DecValue(s, b, e),
             eptr |-> e]

\* strchr(s + from - 1, c): 1-based position of the first c at or after
\* position from, 0 when there is none
RECURSIVE strchr(_, _, _)
strchr(s, from, c) ==
  IF from > Len(s) THEN 0
  ELSE IF s[from] = c THEN from
  ELSE strchr(s, from + 1, c)

----------------------------------------------------------------------------
(* Request parser.                                                         *)

\* the method switch with PATCH taken for PUT
MethodOf_m(m) ==
  CASE Len(m) = 3 ->
         IF StrnEq(GET_, m, Len(m)) THEN JBR_GET
         ELSE IF StrnEq(PUT_, m, Len(m)) THEN JBR_PUT ELSE 0
    [] Len(m) = 4 ->
         IF StrnEq(POST_, m, Len(m)) THEN JBR_POST
         ELSE IF StrnEq(HEAD_, m, Len(m)) THEN JBR_HEAD ELSE 0
    [] Len(m) = 5 -> IF StrnEq(PATCH_, m, Len(m)) THEN JBR_PUT ELSE 0
    [] Len(m) = 6 -> IF StrnEq(DELETE_, m, Len(m)) THEN JBR_DELETE ELSE 0
    [] OTHER -> 0

\* jbr.c:497-522, the method switch of _jbr_fill_ctx
MethodOf(m) ==
  CASE Len(m) = 3 ->
         IF StrnEq(GET_, m, Len(m)) THEN JBR_GET
         ELSE IF StrnEq(PUT_, m, Len(m)) THEN JBR_PUT ELSE 0
    [] Len(m) = 4 ->
         IF StrnEq(POST_, m, Len(m)) THEN JBR_POST
         ELSE IF StrnEq(HEAD_, m, Len(m)) THEN JBR_HEAD ELSE 0
    [] Len(m) = 5 -> IF StrnEq(PATCH_, m, Len(m)) THEN JBR_PATCH ELSE 0
    [] Len(m) = 6 -> IF StrnEq(DELETE_, m, Len(m)) THEN JBR_DELETE ELSE 0
    [] OTHER -> 0

\* the JBRCTX after memset(r, 0, sizeof(*r))
ZeroCtx ==
  [method |-> 0, collection |-> NULL, collection_len |-> 0, id |-> 0,
   read_anon |-> FALSE, data_sent |-> FALSE, wbuf |-> NULLX, explain |-> NULLX]

\* _jbr_fill_ctx: [ok |-> the bool it returns, r |-> the context it leaves]
\* rpath is req->path: NULL or the path string.
_jbr_fill_ctx(rmethod, rpath) ==
  LET r0 == [ZeroCtx EXCEPT !.method = MethodOf(rmethod)]
      path == IF rpath = NULL THEN <<>> ELSE rpath
      c == strchr(path, 2, "/")
      \* no second slash: "/" collection
      r1 == [r0 EXCEPT !.collection = SubSeq(path, 2, Len(path)),
                       !.collection_len = Len(path) - 1]
      \* "/" collection "/" id
      clen == c - 2
      r2 == [r0 EXCEPT !.collection = SubSeq(path, 2, c - 1),
                       !.collection_len = clen]
      nlen == Len(path) - (c - 1) - 1
      nbuf == SubSeq(path, c + 1, Len(path))
      num == strtoll(nbuf)
      r3 == [r2 EXCEPT !.id = num.val]
      finish(r) == [ok |-> r.collection_len <= EJDB_COLLECTION_NAME_MAX_LEN,
                    r |-> r]
  IN IF r0.method = 0 THEN [ok |-> FALSE, r |-> r0]
     ELSE IF rpath = NULL \/ (Len(path) = 1 /\ path[1] = "/")
       THEN [ok |-> TRUE, r |-> r0]
     ELSE IF Len(path) < 2 THEN [ok |-> FALSE, r |-> r0]
     ELSE IF c = 0
       THEN IF r0.method \in {JBR_GET, JBR_HEAD, JBR_PUT, JBR_DELETE, JBR_PATCH}
              THEN [ok |-> FALSE, r |-> r0]
              ELSE finish(r1)
     ELSE IF nlen < 1 THEN finish(r2)
     ELSE IF nlen > JBNUMBUF_SIZE - 1 THEN [ok |-> FALSE, r |-> r2]
     ELSE IF num.eptr <= Len(nbuf) \/ num.val < 1 \/ r0.method = JBR_POST
       THEN [ok |-> FALSE, r |-> r3]
     ELSE finish(r3)

----------------------------------------------------------------------------
(* Values handed through to the database facade and the socket.            *)

\* the documents a collection can hold
Docs == {"d1", "d2"}
NoDoc == "none"
\* the collection the modelled database holds
DbColl == <<"c">>

\* size in bytes of a document printed by jbl_as_json
JsonLen(d) == IF d = "d1" THEN 10 ELSE 5000

\* request bodies, by what the parsers of the database make of them
EmptyBody == [kind |-> "empty", doc |-> NoDoc]
JsonBody(d) == [kind |-> "json", doc |-> d]
GarbageBody == [kind |-> "garbage", doc |-> NoDoc]
\* a query on DbColl; doc is the document its apply clause writes, or NoDoc
QueryBody(d) == [kind |-> "query", doc |-> d]
QueryNoCollBody == [kind |-> "query_nocoll", doc |-> NoDoc]

Bodies ==
  {EmptyBody, GarbageBody, QueryNoCollBody, QueryBody(NoDoc), QueryBody("d2")}
    \cup {JsonBody(d) : d \in Docs}

\* a piece of bytes in a buffer or on the wire
Piece(k, id, doc, n) == [k |-> k, id |-> id, doc |-> doc, n |-> n]
\* "\r\n<id>\t<json>", jbr.c:229-235
Frame(id, d) == Piece("frame", id, d, 2 + 1 + 1 + JsonLen(d))
\* the text ejdb_exec leaves in the explain log, 30 bytes
ExplainText == Piece("explain", 0, NoDoc, 30)
\* "--------------------", jbr.c:223
Separator == Piece("sep", 0, NoDoc, 20)
\* "\r\n"
CRLF == Piece("crlf", 0, NoDoc, 2)
\* "%zX\r\n" of a payload of n bytes, jbr.c:185
SizeLine(n) == Piece("size", 0, NoDoc, n)
\* "0\r\n\r\n", jbr.c:201
Terminator == Piece("term", 0, NoDoc, 5)
\* iwlog_ecode_explained(rc), jql_error(q)
ErrText(rc) == Piece("text", 0, rc, 0)
\* the pretty printed document of GET
JsonText(d) == Piece("json", 0, d, JsonLen(d))
\* iwitoa(id)
NumText(id) == Piece("num", id, NoDoc, 1)

RECURSIVE SeqSum(_)
SeqSum(s) == IF s = <<>> THEN 0 ELSE Head(s).n + SeqSum(Tail(s))

\* iwxstr_size
iwxstr_size(x) == SeqSum(x.s)

\* one call of the response writer or the socket, in call order:
\* op   "send" (_jbr_http_send), "send_error" (http_send_error),
\*      "headers" (http_write_headers), "write" (fio_write),
\*      "complete" (http_complete)
\* res  "sent", "fail" (the socket refused), "invalid" (jbr.c:142 refused)
Ev(op, status, ctype, data, len, res) ==
  [op |-> op, status |-> status, ctype |-> ctype, data |-> data, len |-> len,
   res |-> res]

\* the state a handler works on
\* heap: the iwxstr_new and iwxstr_destroy calls the handler makes on the
\* buffers of the context, in call order
Hs(q, r, o, d, c) ==
  [req |-> q, r |-> r, out |-> o, db |-> d, calls |-> c, heap |-> <<>>]

\* iwxstr_new for, and iwxstr_destroy of, the buffer b of the context
New(h, b) == [h EXCEPT !.heap = Append(@, <<"new", b>>)]
Destroy(h, b) == [h EXCEPT !.heap = Append(@, <<"destroy", b>>)]

Bind(S, F(_)) == UNION {F(x) : x \in S}

----------------------------------------------------------------------------
(* Response writer.                                                        *)

WriteResults == {"sent", "fail"}

\* jbr.c:141-155.  The outcomes: one per result of http_send_body, and, once
\* facil.io has finished the response of this http_s, the refusal of
\* jbr.c:142 on the out_headers it may have dropped.
_jbr_http_send(h, status, ctype, body, bodylen) ==
  LET ct == IF ctype # "" /\ h.req.out_ctype = "" THEN ctype
            ELSE h.req.out_ctype
      refused ==
        IF h.req.finished
          THEN {[h EXCEPT !.out = Append(@, Ev("send", status, ctype, body,
                                              bodylen, "invalid"))]}
          ELSE {}
  IN refused \cup
     {[h EXCEPT !.req.status = status, !.req.out_ctype = ct,
                !.req.finished = TRUE,
                !.out = Append(@, Ev("send", status, ct, body, bodylen, res))]
        : res \in WriteResults}

\* jbr.c:157-159
_jbr_http_error_send(h, status) == _jbr_http_send(h, status, "", <<>>, 0)

\* jbr.c:161-163
_jbr_http_error_send2(h, status, ctype, body, bodylen) ==
  _jbr_http_send(h, status, ctype, body, bodylen)

\* jbr.c:111-116
JBR_RC_REPORT(h, code, rc) ==
  _jbr_http_send(h, code, "text/plain", <<ErrText(rc)>>, 1)

\* facil.io http_send_error
http_send_error(h, status) ==
  {[h EXCEPT !.req.status = status, !.req.finished = TRUE,
             !.out = Append(@, Ev("send_error", status, "", <<>>, 0, res))]
     : res \in WriteResults}

\* facil.io http_complete
http_complete(h) ==
  [h EXCEPT !.req.finished = TRUE,
            !.out = Append(@, Ev("complete", h.req.status, h.req.out_ctype,
                                 <<>>, 0, "sent"))]

----------------------------------------------------------------------------
(* Database facade: ejdb_get, ejdb_put, ejdb_put_new, ejdb_remove,         *)
(* ejdb_patch, jbl_from_json, jql_create, jql_has_apply.  Each returns the *)
(* set of its possible results.  The database holds the collection DbColl  *)
(* with documents under the ids 1..MaxId; any call may also fail with an   *)
(* error of the storage layer.                                             *)

EmptyDb == [i \in 1..MaxId |-> NoDoc]

InDb(coll, id) == coll = DbColl /\ id \in 1..MaxId

Stored(d, coll, id) == InDb(coll, id) /\ d[id] # NoDoc

\* a call made on the database and the iwrc it returned
DbCall(op, coll, id, rc) == [op |-> op, coll |-> coll, id |-> id, rc |-> rc]

\* the 400 class of _jbr_on_patch, jbr.c:350-359
PatchInputErrors ==
  {"JBL_ERROR_PARSE_JSON", "JBL_ERROR_PARSE_INVALID_CODEPOINT",
   "JBL_ERROR_PARSE_INVALID_UTF8", "JBL_ERROR_PARSE_UNQUOTED_STRING",
   "JBL_ERROR_PATCH_TARGET_INVALID", "JBL_ERROR_PATCH_NOVALUE",
   "JBL_ERROR_PATCH_INVALID_OP", "JBL_ERROR_PATCH_TEST_FAILED",
   "JBL_ERROR_PATCH_INVALID_ARRAY_INDEX", "JBL_ERROR_JSON_POINTER"}

\* errors of the database outside that class
OtherErrors == {"IW_ERROR_IO"}

ejdb_get(d, coll, id) ==
  IF Stored(d, coll, id)
    THEN {[rc |-> OK, doc |-> d[id]]}
           \cup {[rc |-> e, doc |-> NoDoc] : e \in OtherErrors}
    ELSE {[rc |-> e, doc |-> NoDoc] : e \in {"IWKV_ERROR_NOTFOUND"} \cup OtherErrors}

ejdb_remove(d, coll, id) ==
  IF Stored(d, coll, id)
    THEN {[rc |-> OK, db |-> [d EXCEPT ![id] = NoDoc]]}
           \cup {[rc |-> e, db |-> d] : e \in OtherErrors}
    ELSE {[rc |-> e, db |-> d] : e \in {"IWKV_ERROR_NOTFOUND"} \cup OtherErrors}

ejdb_put(d, coll, doc, id) ==
  IF InDb(coll, id)
    THEN {[rc |-> OK, db |-> [d EXCEPT ![id] = doc]]}
           \cup {[rc |-> e, db |-> d] : e \in OtherErrors}
    ELSE {[rc |-> e, db |-> d] : e \in OtherErrors}

FreeIds(d) == {i \in 1..MaxId : d[i] = NoDoc}

ejdb_put_new(d, coll, doc) ==
  IF coll = DbColl /\ FreeIds(d) # {}
    THEN LET id == CHOOSE i \in FreeIds(d) : \A j \in FreeIds(d) : i <= j
         IN {[rc |-> OK, db |-> [d EXCEPT ![id] = doc], id |-> id]}
              \cup {[rc |-> e, db |-> d, id |-> 0] : e \in OtherErrors}
    ELSE {[rc |-> e, db |-> d, id |-> 0] : e \in OtherErrors}

\* the patch is parsed first, then applied to the stored document
ejdb_patch(d, coll, body, id) ==
  IF body.kind # "json"
    THEN {[rc |-> e, db |-> d] :
            e \in {"JBL_ERROR_PARSE_JSON", "JBL_ERROR_PARSE_INVALID_CODEPOINT",
                   "JBL_ERROR_PARSE_INVALID_UTF8",
                   "JBL_ERROR_PARSE_UNQUOTED_STRING"}}
  ELSE IF ~Stored(d, coll, id)
    THEN {[rc |-> e, db |-> d] : e \in {"IWKV_ERROR_NOTFOUND"} \cup OtherErrors}
  ELSE {[rc |-> OK, db |-> [d EXCEPT ![id] = body.doc]]}
         \cup {[rc |-> e, db |-> d] :
                 e \in (PatchInputErrors \
                          {"JBL_ERROR_PARSE_JSON",
                           "JBL_ERROR_PARSE_INVALID_CODEPOINT",
                           "JBL_ERROR_PARSE_INVALID_UTF8",
                           "JBL_ERROR_PARSE_UNQUOTED_STRING"})
                       \cup OtherErrors}

jbl_from_json(body) ==
  IF body.kind = "json" THEN OK ELSE "JBL_ERROR_PARSE_JSON"

jql_create(body) ==
  CASE body.kind = "query" -> OK
    [] body.kind = "query_nocoll" -> "JQL_ERROR_NO_COLLECTION"
    [] OTHER -> "JQL_ERROR_QUERY_PARSE"

jql_has_apply(body) == body.kind = "query" /\ body.doc # NoDoc

\* results of an allocation or of printing into a buffer
MemResults == {OK, "IW_ERROR_ALLOC"}

----------------------------------------------------------------------------
(* Operation handlers.  Each yields the set of states the handler can      *)
(* leave.                                                                  *)

\* req->method is a FIOBJ, the tagged address of a string object (tag bits
\* 010); _jbr_on_get compares this handle with the enum value JBR_HEAD
fiobj_handle(m) == 16 * (1 + Len(m)) + 2

\* jbr.c:452-490
_jbr_on_get(h) ==
  LET h1(rc) ==
        [h EXCEPT !.calls = Append(@, DbCall("get", h.r.collection, h.r.id, rc))]
      printed(g, m) ==
        IF m # OK THEN JBR_RC_REPORT(h1(g.rc), 500, m)
        ELSE IF fiobj_handle(h.req.method) = JBR_HEAD
          THEN _jbr_http_send(h1(g.rc), 200, "application/json", <<>>, JsonLen(g.doc))
          ELSE _jbr_http_send(h1(g.rc), 200, "application/json", <<JsonText(g.doc)>>,
                              JsonLen(g.doc))
      got(g) ==
        IF g.rc = "IWKV_ERROR_NOTFOUND" THEN _jbr_http_error_send(h1(g.rc), 404)
        ELSE IF g.rc # OK THEN JBR_RC_REPORT(h1(g.rc), 500, g.rc)
        ELSE UNION {printed(g, m) : m \in MemResults}
  IN Bind(ejdb_get(h.db, h.r.collection, h.r.id), got)

\* jbr.c:419-450
_jbr_on_post(h) ==
  LET rcj == jbl_from_json(h.req.body)
      h1(rc) ==
        [h EXCEPT !.calls = Append(@, DbCall("put_new", h.r.collection, 0, rc))]
      stored(p) ==
        IF p.rc # OK THEN JBR_RC_REPORT([h1(p.rc) EXCEPT !.db = p.db], 500, p.rc)
        ELSE _jbr_http_send([h1(p.rc) EXCEPT !.db = p.db], 200, "text/plain",
                            <<NumText(p.id)>>, 1)
  IN IF h.r.read_anon THEN _jbr_http_error_send(h, 403)
     ELSE IF h.req.body.kind = "empty" THEN _jbr_http_error_send(h, 400)
     ELSE IF rcj # OK THEN JBR_RC_REPORT(h, 400, rcj)
     ELSE Bind(ejdb_put_new(h.db, h.r.collection, h.req.body.doc), stored)

\* jbr.c:390-417
_jbr_on_put(h) ==
  LET rcj == jbl_from_json(h.req.body)
      h1(rc) ==
        [h EXCEPT !.calls = Append(@, DbCall("put", h.r.collection, h.r.id, rc))]
      stored(p) ==
        IF p.rc # OK THEN JBR_RC_REPORT([h1(p.rc) EXCEPT !.db = p.db], 500, p.rc)
        ELSE _jbr_http_send([h1(p.rc) EXCEPT !.db = p.db], 200, "", <<>>, 0)
  IN IF h.r.read_anon THEN _jbr_http_error_send(h, 403)
     ELSE IF h.req.body.kind = "empty" THEN _jbr_http_error_send(h, 400)
     ELSE IF rcj # OK THEN JBR_RC_REPORT(h, 400, rcj)
     ELSE Bind(ejdb_put(h.db, h.r.collection, h.req.body.doc, h.r.id), stored)

\* the document is reported removed without a call of ejdb_remove
_jbr_on_delete_m(h) ==
  IF h.r.read_anon THEN _jbr_http_error_send(h, 403)
  ELSE _jbr_http_send(h, 200, "", <<>>, 0)

\* jbr.c:372-388
_jbr_on_delete(h) ==
  LET h1(rc) ==
        [h EXCEPT !.calls = Append(@, DbCall("remove", h.r.collection, h.r.id, rc))]
      removed(p) ==
        IF p.rc = "IWKV_ERROR_NOTFOUND"
          THEN _jbr_http_error_send([h1(p.rc) EXCEPT !.db = p.db], 404)
        ELSE IF p.rc # OK THEN JBR_RC_REPORT([h1(p.rc) EXCEPT !.db = p.db], 500, p.rc)
        ELSE _jbr_http_send([h1(p.rc) EXCEPT !.db = p.db], 200, "", <<>>, 0)
  IN IF h.r.read_anon THEN _jbr_http_error_send(h, 403)
     ELSE Bind(ejdb_remove(h.db, h.r.collection, h.r.id), removed)

\* jbr.c:365-369, the tail of _jbr_on_patch after the switch
PatchTail(h, rc) ==
  IF rc # OK THEN JBR_RC_REPORT(h, 500, rc)
  ELSE _jbr_http_send(h, 200, "", <<>>, 0)

\* jbr.c:334-370
_jbr_on_patch(h) ==
  LET h1(rc) ==
        [h EXCEPT !.calls = Append(@, DbCall("patch", h.r.collection, h.r.id, rc))]
      patched(p) ==
        LET h2 == [h1(p.rc) EXCEPT !.db = p.db]
            after(x) == PatchTail(x, p.rc)
        IN IF p.rc \in PatchInputErrors
             THEN Bind(JBR_RC_REPORT(h2, 400, p.rc), after)
             ELSE PatchTail(h2, p.rc)
  IN IF h.r.read_anon THEN _jbr_http_error_send(h, 403)
     ELSE IF h.req.body.kind = "empty" THEN _jbr_http_error_send(h, 400)
     ELSE Bind(ejdb_patch(h.db, h.r.collection, h.req.body, h.r.id), patched)

----------------------------------------------------------------------------
(* Chunked streaming.                                                      *)

\* result of a step that can fail: the state it leaves and its iwrc
Rs(h, rc) == [h |-> h, rc |-> rc]

\* continue with F on the states of S that succeeded
Then(S, F(_)) == UNION {IF w.rc = OK THEN F(w.h) ELSE {w} : w \in S}

\* the result of the write is not looked at
WriteRc_m(res) == OK

\* jbr.c:174-177 and jbr.c:187-204: a failed write is JBR_ERROR_SEND_RESPONSE
WriteRc(res) == IF res = "sent" THEN OK ELSE "JBR_ERROR_SEND_RESPONSE"

\* facil.io fio_write
fio_write(h, data) ==
  {Rs([h EXCEPT !.out = Append(@, Ev("write", 0, "", data, SeqSum(data), res))],
      WriteRc(res)) : res \in WriteResults}

\* http_write_headers
http_write_headers(h) ==
  {Rs([h EXCEPT !.out = Append(@, Ev("headers", h.req.status, h.req.out_ctype,
                                     <<>>, 0, res))],
      WriteRc(res)) : res \in WriteResults}

\* the buffer is left as it is
iwxstr_clear_m(x) == x

\* iwxstr_clear(wbuf), jbr.c:198
iwxstr_clear(x) == Xstr(<<>>)

\* a chunk is emitted on every call
ChunkDue_m(finish, size) == TRUE

\* jbr.c:180-182: the call goes on to emit a chunk
ChunkDue(finish, size) == ~(~finish /\ size < JBR_HTTP_CHUNK_SIZE)

\* jbr.c:165-207
_jbr_flush_chunk(h, finish) ==
  LET ct == IF h.req.out_ctype = "" THEN "application/json" ELSE h.req.out_ctype
      h0 == [h EXCEPT !.req.status = 200, !.req.out_ctype = ct,
                      !.req.out_te = "chunked"]
      sent(x) == {Rs([x EXCEPT !.r.data_sent = TRUE], OK)}
      header == IF ~h.r.data_sent THEN Then(http_write_headers(h0), sent)
                ELSE {Rs(h, OK)}
      data(x) == fio_write(x, x.r.wbuf.s)
      crlf(x) == fio_write(x, <<CRLF>>)
      clear(x) == {Rs([x EXCEPT !.r.wbuf = iwxstr_clear(@)], OK)}
      payload(x) ==
        IF iwxstr_size(x.r.wbuf) > 0
          THEN Then(Then(Then(fio_write(x, <<SizeLine(iwxstr_size(x.r.wbuf))>>),
                              data), crlf), clear)
          ELSE {Rs(x, OK)}
      term(x) == IF finish THEN fio_write(x, <<Terminator>>) ELSE {Rs(x, OK)}
      chunk(x) ==
        IF ~ChunkDue(finish, iwxstr_size(x.r.wbuf))
          THEN {Rs(x, OK)}
          ELSE Then(payload(x), term)
  IN Then(header, chunk)

\* the pointer keeps the address of the destroyed buffer
Nulled_m(x) == x

\* jbr.c:226, jbr.c:326 and jbr.c:330: the pointer is set to 0 after
\* iwxstr_destroy
Nulled(x) == NULLX

\* jbr.c:209-238, for the document doc with identifier id
_jbr_query_visitor(h, id, doc) ==
  LET alloc ==
        IF h.r.wbuf = NULLX
          THEN {Rs(New([h EXCEPT !.r.wbuf = Xstr(<<>>)], "wbuf"), OK),
                Rs(h, "IW_ERROR_ALLOC")}
          ELSE {Rs(h, OK)}
      explain(x) ==
        IF x.r.explain # NULLX
          THEN {Rs(Destroy([x EXCEPT
                              !.r.wbuf = Xstr(@.s \o x.r.explain.s \o <<Separator>>),
                              !.r.explain = Nulled(@)], "explain"), OK),
                Rs(x, "IW_ERROR_ALLOC")}
          ELSE {Rs(x, OK)}
      print(x) ==
        {Rs([x EXCEPT !.r.wbuf = Xstr(Append(@.s, Frame(id, doc)))], OK),
         Rs(x, "IW_ERROR_ALLOC")}
      flush(x) == _jbr_flush_chunk(x, FALSE)
  IN Then(Then(Then(alloc, explain), print), flush)

----------------------------------------------------------------------------
(* Root query.                                                             *)

\* rest: the result documents not visited yet; n: the visitor calls made;
\* seen: the documents handed to the visitor, in order; vrc: what the last
\* visitor call returned; ret: what ejdb_exec returned, "" before it has;
\* rc: the rc of _jbr_on_query at its label finish, "" before; heap: the
\* iwxstr_new and iwxstr_destroy calls made for the request so far
NoUx ==
  [rest |-> <<>>, n |-> 0, seen |-> <<>>, vrc |-> OK, ret |-> "", rc |-> "",
   heap |-> <<>>]

\* strstr(hv.data, "explain") on the comma separated X-Hints value
HasExplain(hv) == \E i \in 1..Len(hv) : hv[i] = "explain"

\* ascending sequence of the members of a set of identifiers
RECURSIVE Ascending(_)
Ascending(S) ==
  IF S = {} THEN <<>>
  ELSE LET m == CHOOSE i \in S : \A j \in S : i <= j
       IN <<m>> \o Ascending(S \ {m})

\* the result sets a query can have on the database d: the stored documents
\* its filter matches, in the order of their identifiers
ResultSets(d) ==
  {Ascending(S) : S \in SUBSET {i \in 1..MaxId : d[i] # NoDoc}}

\* the empty response left out: the request is only completed
EmptyResponse_m(h) == {http_complete(h)}

\* jbr.c:317-320, the response of a query that sent no data
EmptyResponse(h) == _jbr_http_send(h, 200, "", <<>>, 0)

\* jbr.c:292-331, from the label finish to the end of _jbr_on_query
QueryFinish(h, rc) ==
  LET reported ==
        IF rc # OK
          THEN CASE rc = "JQL_ERROR_QUERY_PARSE" ->
                      _jbr_http_error_send2(h, 400, "text/plain", <<ErrText(rc)>>, 1)
                 [] rc = "JQL_ERROR_NO_COLLECTION" -> JBR_RC_REPORT(h, 400, rc)
                 [] OTHER -> IF h.r.data_sent THEN {http_complete(h)}
                             ELSE JBR_RC_REPORT(h, 500, rc)
        ELSE IF h.r.data_sent THEN {http_complete(h)}
        ELSE EmptyResponse(h)
      explain(x) ==
        IF x.r.explain # NULLX
          THEN Destroy([x EXCEPT !.r.explain = Nulled(@)], "explain") ELSE x
      wbuf(x) ==
        IF x.r.wbuf # NULLX
          THEN Destroy([x EXCEPT !.r.wbuf = Nulled(@)], "wbuf") ELSE x
  IN {wbuf(explain(x)) : x \in reported}

\* jbr.c:286-331, _jbr_on_query once ejdb_exec has returned rc
QueryAfterExec(h, rc) ==
  LET cat == {Rs([h EXCEPT !.r.wbuf = Xstr(Append(@.s, CRLF))], OK),
              Rs(h, "IW_ERROR_ALLOC")}
      last(x) == _jbr_flush_chunk(x, TRUE)
      flushed == IF rc = OK /\ h.r.wbuf # NULLX THEN Then(cat, last)
                 ELSE {Rs(h, rc)}
  IN UNION {{[h |-> x, rc |-> w.rc] : x \in QueryFinish(w.h, w.rc)}
              : w \in flushed}

\* the test of jbr.c:252 left out
AnonApply_m(h) == FALSE

\* jbr.c:252, a data modification request that is not permitted
AnonApply(h) == h.r.read_anon /\ jql_has_apply(h.req.body)

\* jbr.c:240-284, _jbr_on_query up to the call of ejdb_exec.  Yields the
\* states the handler can be in when it has returned (pc "done") or when
\* ejdb_exec has started on one of the result sets (pc "exec"); an attached
\* explain log holds the plan from then on.
QueryStart(h) ==
  LET done(S) ==
        {[h |-> x, ux |-> [NoUx EXCEPT !.heap = x.heap], pc |-> "done"] : x \in S}
      rcq == jql_create(h.req.body)
      exec(x) ==
        {[h |-> x, ux |-> [NoUx EXCEPT !.rest = rs, !.heap = x.heap], pc |-> "exec"]
           : rs \in ResultSets(x.db)}
      logged == New([h EXCEPT !.r.explain = Xstr(<<ExplainText>>)], "explain")
  IN IF h.req.body.kind = "empty" THEN done(_jbr_http_error_send(h, 400))
     ELSE IF rcq # OK THEN done(QueryFinish(h, rcq))
     ELSE IF AnonApply(h) THEN done(_jbr_http_error_send(h, 403))
     ELSE IF h.req.hints # NULL
       THEN IF h.req.hints = FIOBJ_ARRAY THEN done(_jbr_http_error_send(h, 400))
            ELSE IF HasExplain(h.req.hints)
              THEN exec(logged) \cup done(QueryFinish(h, "IW_ERROR_ALLOC"))
              ELSE exec(h)
     ELSE exec(h)

----------------------------------------------------------------------------
(* Request entry point.                                                    *)

\* an http_s as facil.io hands it to the handler
Request(method, path, token, hints, body) ==
  [method |-> method, path |-> path, token |-> token, hints |-> hints,
   body |-> body, status |-> 200, out_ctype |-> "", out_te |-> "",
   finished |-> FALSE]

\* jbr.c:589, the requests that may be served without a token
AnonEligible(r) ==
  r.method = JBR_GET \/ r.method = JBR_HEAD
    \/ (r.method = JBR_POST /\ r.collection = NULL)

\* the comparison without the length test: the presented bytes are compared
\* with the start of the token
TokenMatches_m(cfg, hv) ==
  /\ Len(hv) <= cfg.access_token_len
  /\ MemEq(hv, cfg.access_token, Len(hv))

\* jbr.c:602, the presented value matches the configured token
TokenMatches(cfg, hv) ==
  ~(Len(hv) # cfg.access_token_len
      \/ ~MemEq(hv, cfg.access_token, cfg.access_token_len))

\* jbr.c:608-640, the dispatch below the label process
Dispatch(h) ==
  LET done(S, rt) ==
        {[h |-> x, ux |-> NoUx, pc |-> "done", route |-> rt] : x \in S}
  IN IF h.r.collection # NULL
       THEN CASE h.r.method \in {JBR_GET, JBR_HEAD} -> done(_jbr_on_get(h), "get")
              [] h.r.method = JBR_POST -> done(_jbr_on_post(h), "post")
              [] h.r.method = JBR_PUT -> done(_jbr_on_put(h), "put")
              [] h.r.method = JBR_PATCH -> done(_jbr_on_patch(h), "patch")
              [] h.r.method = JBR_DELETE -> done(_jbr_on_delete(h), "delete")
              [] OTHER -> done(http_send_error(h, 400), "dispatch400")
     ELSE IF h.r.method = JBR_POST
       THEN {[h |-> s.h, ux |-> s.ux, pc |-> s.pc, route |-> "query"]
               : s \in QueryStart(h)}
     ELSE done(http_send_error(h, 400), "dispatch400")

\* jbr.c:575-641
_jbr_on_http_request(cfg, q, d) ==
  LET f == _jbr_fill_ctx(q.method, q.path)
      h == Hs(q, f.r, <<>>, d, <<>>)
      done(S, rt) ==
        {[h |-> x, ux |-> NoUx, pc |-> "done", route |-> rt] : x \in S}
  IN IF ~f.ok THEN done(http_send_error(h, 400), "parse400")
     ELSE IF cfg.access_token # NULL
       THEN IF q.token = NULL
              THEN IF cfg.read_anon /\ AnonEligible(f.r)
                     THEN Dispatch([h EXCEPT !.r.read_anon = TRUE])
                     ELSE done(http_send_error(h, 401), "gate401")
            ELSE IF q.token = FIOBJ_ARRAY
              THEN done(http_send_error(h, 400), "gate400")
            ELSE IF ~TokenMatches(cfg, q.token)
              THEN done(http_send_error(h, 403), "gate403")
            ELSE Dispatch(h)
     ELSE Dispatch(h)

----------------------------------------------------------------------------
(* The requests and configurations explored.                               *)

\* the token of the configurations that have one
Token == <<"a", "b">>

Configs ==
  {[access_token |-> t, access_token_len |-> IF t = NULL THEN 0 ELSE Len(t),
    read_anon |-> a] : t \in {NULL, Token}, a \in BOOLEAN}

Strings(chars, n) == UNION {[1..k -> chars] : k \in 0..n}

\* X-Access-Token: absent, given more than once, or one value
TokenHdrs == {NULL, FIOBJ_ARRAY} \cup Strings({"a", "b"}, MaxTokLen)

\* X-Hints: absent, given more than once, or one list of hints
HintHdrs == {NULL, FIOBJ_ARRAY, <<"explain">>, <<"other">>}

Methods == {GET_, PUT_, POST_, HEAD_, PATCH_, DELETE_, <<"G", "E", "X">>}

\* the bytes of the paths of the parser specification
PathChars == {"/", "c", "0", "1", "-"}

\* the strings of n bytes that start with a slash
RECURSIVE PathsOfLen(_)
PathsOfLen(n) ==
  IF n = 1 THEN {<<"/">>}
  ELSE {Append(p, c) : p \in PathsOfLen(n - 1), c \in PathChars}

\* request targets start with a slash
AllPaths == UNION {PathsOfLen(n) : n \in 1..MaxPathLen}

HttpPaths ==
  {NULL, <<"/">>, <<"/", "c">>, <<"/", "c", "/", "1">>, <<"/", "c", "/">>,
   <<"/", "c", "/", "0">>}

\* the bodies explored for a method: only POST, PUT and PATCH read a body
BodiesFor(m) == IF m \in {POST_, PUT_, PATCH_} THEN Bodies ELSE {EmptyBody}

\* the X-Hints explored for a request: only the query handler reads the header
HintsFor(m, p) ==
  IF m = POST_ /\ p \in {NULL, <<"/">>} THEN HintHdrs ELSE {NULL}

\* the body of a request of the parser specification: a query on the root
\* path, a document elsewhere
ParseBody(m, p) ==
  IF m = POST_ /\ p = <<"/">> THEN QueryBody(NoDoc) ELSE JsonBody("d1")

----------------------------------------------------------------------------
(* Lifecycle: jbr_start, _jbr_start_thread, _jbr_on_pre_start,             *)
(* jbr_shutdown, _jbr_release.  Every access of the shared memory is one   *)
(* step of the thread that makes it.  A read of freed memory yields any    *)
(* value of its type.                                                      *)

Main == "main"

Worker == "worker"

\* threads of the embedding host that call jbr_shutdown on the handle
Callers == {"s1", "s2"}

Threads == {Main, Worker} \cup Callers

\* the calls of jbr_shutdown the thread of jbr_start makes after its return
MaxShutdowns == 2

\* values of the handle *pjbr
NULLH == "null"

JBRH == "jbr"

NoJbr == [mem |-> "none", terminated |-> FALSE, rc |-> OK]

\* jbr.c:924-928: calloc, jbr->terminated = true
calloc_jbr == [mem |-> "live", terminated |-> TRUE, rc |-> OK]

NoBarrier ==
  [state |-> "none", parties |-> 0, count |-> 0,
   arrived |-> [t \in Threads |-> 0], late |-> FALSE]

\* a barrier for one participant
pthread_barrier_init_m == [NoBarrier EXCEPT !.state = "init", !.parties = 1]

\* jbr.c:931, pthread_barrier_init(&jbr->start_barrier, 0, 2)
pthread_barrier_init == [NoBarrier EXCEPT !.state = "init", !.parties = 2]

NoFio == [prestart |-> FALSE, running |-> FALSE, stop |-> FALSE]

\* jbr: the local JBR of jbr_shutdown; rel: the one of _jbr_release; rc: the
\* local rc of jbr_start; instart: jbr_shutdown was called by jbr_start;
\* calls: the calls of jbr_shutdown the thread has completed
NoLocals ==
  [jbr |-> NULLH, rel |-> NULLH, rc |-> OK, instart |-> FALSE, calls |-> 0]

\* ret: what jbr_start returned, "" before; listen: the outcome of
\* http_listen; stops: calls of fio_stop; joins: completed pthread_join;
\* frees: calls of free on the struct; wins: successful compare-and-swaps;
\* uaf: the accesses made to the struct after its release; seq: every call
\* of jbr_shutdown by the host so far was made after jbr_start had returned
\* and while no other call of jbr_shutdown was running; loop: every call of
\* jbr_shutdown by the host so far was made while the thread of jbr_start
\* was inside fio_start
NoLife ==
  [ret |-> "", listen |-> "", stops |-> 0, joins |-> 0, frees |-> 0,
   wins |-> 0, uaf |-> {}, seq |-> TRUE, loop |-> TRUE]

\* the accesses after release, with the access what of thread t added
Touch(t, what) ==
  IF jbr.mem = "freed" THEN life.uaf \cup {<<t, what>>} ELSE life.uaf

\* the values a read of a field of the struct can yield
Read(v, type) == IF jbr.mem = "freed" THEN type ELSE {v}

StartRcs == {OK, "JBR_ERROR_HTTP_LISTEN"}

\* free(jbr)
Free(j) == [j EXCEPT !.mem = "freed"]

\* jbr.c:919-929: jbr_start up to the test of blocking
StartEnter ==
  /\ tpc[Main] = "start"
  /\ pjbr' = NULLH
  /\ \/ /\ ~opts.enabled
        /\ life' = [life EXCEPT !.ret = OK]
        /\ tpc' = [tpc EXCEPT ![Main] = "returned"]
        /\ UNCHANGED jbr
     \/ /\ opts.enabled
        /\ life' = [life EXCEPT !.ret = "IW_ERROR_ALLOC"]
        /\ tpc' = [tpc EXCEPT ![Main] = "returned"]
        /\ UNCHANGED jbr
     \/ /\ opts.enabled
        /\ jbr' = calloc_jbr
        /\ tpc' = [tpc EXCEPT ![Main] =
                     IF opts.blocking THEN "b_publish" ELSE "nb_binit"]
        /\ UNCHANGED life
  /\ UNCHANGED <<opts, barrier, fio, tl, HttpVars, WsVars>>

\* jbr.c:931-935
BarrierInit ==
  /\ tpc[Main] = "nb_binit"
  /\ \/ /\ barrier' = pthread_barrier_init
        /\ tpc' = [tpc EXCEPT ![Main] = "nb_create"]
        /\ UNCHANGED <<jbr, life>>
     \/ /\ jbr' = Free(jbr)
        /\ life' = [life EXCEPT !.ret = "IW_ERROR_THREADING_ERRNO",
                                !.frees = @ + 1]
        /\ tpc' = [tpc EXCEPT ![Main] = "returned"]
        /\ UNCHANGED barrier
  /\ UNCHANGED <<opts, pjbr, fio, tl, HttpVars, WsVars>>

\* jbr.c:936-941
ThreadCreate ==
  /\ tpc[Main] = "nb_create"
  /\ \/ /\ tpc' = [tpc EXCEPT ![Main] = "nb_wait", ![Worker] = "listen"]
        /\ UNCHANGED <<jbr, life, barrier>>
     \/ /\ barrier' = [barrier EXCEPT !.state = "destroyed"]
        /\ jbr' = Free(jbr)
        /\ life' = [life EXCEPT !.ret = "IW_ERROR_THREADING_ERRNO",
                                !.frees = @ + 1]
        /\ tpc' = [tpc EXCEPT ![Main] = "returned"]
  /\ UNCHANGED <<opts, pjbr, fio, tl, HttpVars, WsVars>>

\* where a thread waits on the barrier, and where it is once it has arrived
WaitPcs == {"nb_wait", "w_err_wait", "w_pre_wait"}

Arrived(p) ==
  CASE p = "nb_wait" -> "nb_in"
    [] p = "w_err_wait" -> "w_err_in"
    [] p = "w_pre_wait" -> "w_pre_in"

\* a thread that returns from _jbr_start_thread: the worker exits, the
\* caller of a blocking jbr_start goes on at jbr.c:955
StartThreadReturn(t) == IF t = Worker THEN "exited" ELSE "b_rc"

\* where a thread goes on when the barrier lets it go
Passed(t, p) ==
  CASE p = "nb_in" -> "nb_bdestroy"
    [] p = "w_err_in" -> StartThreadReturn(t)
    [] p = "w_pre_in" -> "w_loop"

\* pthread_barrier_wait, the arrival: jbr.c:942 for the parent, jbr.c:903
\* and jbr.c:650 for the worker
BarrierArrive ==
  \E t \in Threads :
    /\ tpc[t] \in WaitPcs
    /\ barrier' = [barrier EXCEPT !.count = @ + 1,
                                  !.arrived[t] = @ + 1,
                                  !.late = @ \/ barrier.state # "init"]
    /\ tpc' = [tpc EXCEPT ![t] = Arrived(tpc[t])]
    /\ UNCHANGED <<opts, pjbr, jbr, fio, tl, life, HttpVars, WsVars>>

\* pthread_barrier_wait, the return: all participants have arrived
BarrierPass ==
  \E t \in Threads :
    /\ tpc[t] \in {"nb_in", "w_err_in", "w_pre_in"}
    /\ barrier.count >= barrier.parties
    /\ tpc' = [tpc EXCEPT ![t] = Passed(t, tpc[t])]
    /\ fio' = IF tpc[t] = "w_pre_in" THEN [fio EXCEPT !.running = TRUE] ELSE fio
    /\ UNCHANGED <<opts, pjbr, jbr, barrier, tl, life, HttpVars, WsVars>>

\* jbr.c:943
BarrierDestroy ==
  /\ tpc[Main] = "nb_bdestroy"
  /\ barrier' = [barrier EXCEPT !.state = "destroyed"]
  /\ tpc' = [tpc EXCEPT ![Main] = "nb_unterm"]
  /\ UNCHANGED <<opts, pjbr, jbr, fio, tl, life, HttpVars, WsVars>>

\* jbr->terminated = false: jbr.c:944, and jbr.c:953 in blocking mode,
\* where the caller then runs _jbr_start_thread itself
SetRunning ==
  /\ tpc[Main] \in {"nb_unterm", "b_unterm"}
  /\ jbr' = [jbr EXCEPT !.terminated = FALSE]
  /\ life' = [life EXCEPT !.uaf = Touch(Main, "terminated")]
  /\ tpc' = [tpc EXCEPT ![Main] =
               IF tpc[Main] = "nb_unterm" THEN "nb_rc" ELSE "listen"]
  /\ UNCHANGED <<opts, pjbr, barrier, fio, tl, HttpVars, WsVars>>

\* jbr.c:945-949: rc = jbr->rc; on an error jbr_shutdown(pjbr) is called
ReadRc ==
  /\ tpc[Main] = "nb_rc"
  /\ \E rc \in Read(jbr.rc, StartRcs) :
       /\ tl' = [tl EXCEPT ![Main].rc = rc, ![Main].instart = (rc # OK)]
       /\ tpc' = [tpc EXCEPT ![Main] =
                    IF rc # OK THEN "sd_enter" ELSE "nb_publish"]
  /\ life' = [life EXCEPT !.uaf = Touch(Main, "rc")]
  /\ UNCHANGED <<opts, pjbr, jbr, barrier, fio, HttpVars, WsVars>>

\* *pjbr = jbr: jbr.c:950 before the return of the non-blocking start,
\* jbr.c:952 at the begin of the blocking one
Publish ==
  /\ tpc[Main] \in {"nb_publish", "b_publish"}
  /\ pjbr' = JBRH
  /\ IF tpc[Main] = "nb_publish"
       THEN /\ life' = [life EXCEPT !.ret = tl[Main].rc]
            /\ tpc' = [tpc EXCEPT ![Main] = "returned"]
       ELSE /\ tpc' = [tpc EXCEPT ![Main] = "b_unterm"]
            /\ UNCHANGED life
  /\ UNCHANGED <<opts, jbr, barrier, fio, tl, HttpVars, WsVars>>

\* the worker returns without waiting on the barrier
OnStartError_m(blocking, t) == StartThreadReturn(t)

\* jbr.c:901-906: _jbr_start_thread with an error in jbr->rc
OnStartError(blocking, t) ==
  IF ~blocking THEN "w_err_wait" ELSE StartThreadReturn(t)

\* jbr.c:881-905: http_listen and the test of jbr->rc
Listen ==
  \E t \in {Main, Worker}, res \in {"ok", "fail"} :
    /\ tpc[t] = "listen"
    /\ LET rc == IF res = "fail" THEN "JBR_ERROR_HTTP_LISTEN" ELSE jbr.rc
       IN /\ jbr' = [jbr EXCEPT !.rc = rc]
          /\ \E seen \in (IF jbr.mem = "freed" THEN StartRcs ELSE {rc}) :
               tpc' = [tpc EXCEPT ![t] =
                         IF seen = OK THEN "w_cbadd"
                         ELSE OnStartError(opts.blocking, t)]
    /\ life' = [life EXCEPT !.listen = res, !.uaf = Touch(t, "rc")]
    /\ UNCHANGED <<opts, pjbr, barrier, fio, tl, HttpVars, WsVars>>

\* jbr.c:907, fio_state_callback_add(FIO_CALL_PRE_START, ...)
CallbackAdd ==
  \E t \in {Main, Worker} :
    /\ tpc[t] = "w_cbadd"
    /\ fio' = [fio EXCEPT !.prestart = TRUE]
    /\ tpc' = [tpc EXCEPT ![t] = "w_fio"]
    /\ UNCHANGED <<opts, pjbr, jbr, barrier, tl, life, HttpVars, WsVars>>

\* jbr.c:908, fio_start: the pre-start callbacks run, then the event loop.
\* _jbr_on_pre_start (jbr.c:647-652) waits on the barrier unless blocking.
FioStart ==
  \E t \in {Main, Worker} :
    /\ tpc[t] = "w_fio"
    /\ IF fio.prestart
         THEN /\ \E b \in Read(opts.blocking, BOOLEAN) :
                   /\ tpc' = [tpc EXCEPT ![t] =
                                IF b THEN "w_loop" ELSE "w_pre_wait"]
                   /\ fio' = [fio EXCEPT !.running = b]
              /\ life' = [life EXCEPT !.uaf = Touch(t, "http")]
         ELSE /\ tpc' = [tpc EXCEPT ![t] = "w_loop"]
              /\ fio' = [fio EXCEPT !.running = TRUE]
              /\ UNCHANGED life
    /\ UNCHANGED <<opts, pjbr, jbr, barrier, tl, HttpVars, WsVars>>

\* fio_start returns once fio_stop was called; _jbr_start_thread returns
LoopExit ==
  \E t \in {Main, Worker} :
    /\ tpc[t] = "w_loop"
    /\ fio.stop
    /\ fio' = [fio EXCEPT !.running = FALSE]
    /\ tpc' = [tpc EXCEPT ![t] = StartThreadReturn(t)]
    /\ UNCHANGED <<opts, pjbr, jbr, barrier, tl, life, HttpVars, WsVars>>

\* jbr.c:955, rc = jbr->rc after the blocking _jbr_start_thread
BlockingRc ==
  /\ tpc[Main] = "b_rc"
  /\ \E rc \in Read(jbr.rc, StartRcs) : tl' = [tl EXCEPT ![Main].rc = rc]
  /\ life' = [life EXCEPT !.uaf = Touch(Main, "rc")]
  /\ tpc' = [tpc EXCEPT ![Main] = "b_term"]
  /\ UNCHANGED <<opts, pjbr, jbr, barrier, fio, HttpVars, WsVars>>

\* jbr.c:956-957, jbr->terminated = true, then jbr_shutdown(pjbr)
BlockingTerminate ==
  /\ tpc[Main] = "b_term"
  /\ jbr' = [jbr EXCEPT !.terminated = TRUE]
  /\ life' = [life EXCEPT !.uaf = Touch(Main, "terminated")]
  /\ tl' = [tl EXCEPT ![Main].instart = TRUE]
  /\ tpc' = [tpc EXCEPT ![Main] = "sd_enter"]
  /\ UNCHANGED <<opts, pjbr, barrier, fio, HttpVars, WsVars>>

\* the positions of a thread inside jbr_shutdown
ShutdownPcs ==
  {"sd_enter", "sd_cas", "sd_stop", "sd_join", "sd_rel", "sd_free", "sd_null"}

\* the host calls jbr_shutdown(pjbr): the thread that called jbr_start
\* after it has returned, another thread at any time
ShutdownCall ==
  \E t \in Callers \cup {Main} :
    /\ IF t = Main
         THEN tpc[t] = "returned" /\ tl[t].calls < MaxShutdowns
         ELSE tpc[t] = "idle" /\ tl[t].calls < 1 /\ tpc[Main] # "start"
    /\ tpc' = [tpc EXCEPT ![t] = "sd_enter"]
    /\ life' = [life EXCEPT
                  !.seq = /\ @
                          /\ life.ret # ""
                          /\ \A u \in Threads \ {t} : tpc[u] \notin ShutdownPcs,
                  !.loop = @ /\ tpc[Main] = "w_loop"]
    /\ UNCHANGED <<opts, pjbr, jbr, barrier, fio, tl, HttpVars, WsVars>>

\* the return of jbr_shutdown in thread t
ReturnPc(t) == IF tl[t].instart \/ t = Main THEN "returned" ELSE "idle"

ReturnLocals(t) ==
  IF tl[t].instart THEN [tl EXCEPT ![t].instart = FALSE]
  ELSE [tl EXCEPT ![t].calls = @ + 1]

ReturnRet(t) == IF tl[t].instart THEN tl[t].rc ELSE life.ret

\* every call goes on to the compare-and-swap
jbr_shutdown_entry_m(p) == "sd_cas"

\* jbr.c:963-965, if (!*pjbr) return 0
jbr_shutdown_entry(p) == IF p = NULLH THEN "return" ELSE "sd_cas"

\* jbr.c:963-966
ShutdownEnter ==
  \E t \in Callers \cup {Main} :
    /\ tpc[t] = "sd_enter"
    /\ IF jbr_shutdown_entry(pjbr) = "return"
         THEN /\ tpc' = [tpc EXCEPT ![t] = ReturnPc(t)]
              /\ tl' = ReturnLocals(t)
              /\ life' = [life EXCEPT !.ret = ReturnRet(t)]
         ELSE /\ tpc' = [tpc EXCEPT ![t] = "sd_cas"]
              /\ tl' = [tl EXCEPT ![t].jbr = pjbr]
              /\ UNCHANGED life
    /\ UNCHANGED <<opts, pjbr, jbr, barrier, fio, HttpVars, WsVars>>

\* jbr.c:967, __sync_bool_compare_and_swap(&jbr->terminated, 0, 1)
ShutdownCas ==
  \E t \in Callers \cup {Main} :
    /\ tpc[t] = "sd_cas"
    /\ \E won \in Read(~jbr.terminated, BOOLEAN) :
         /\ jbr' = [jbr EXCEPT !.terminated = IF won THEN TRUE ELSE @]
         /\ tpc' = [tpc EXCEPT ![t] = IF won THEN "sd_stop" ELSE "sd_rel"]
         /\ life' = [life EXCEPT !.wins = IF won THEN @ + 1 ELSE @,
                                 !.uaf = Touch(t, "terminated")]
    /\ UNCHANGED <<opts, pjbr, barrier, fio, tl, HttpVars, WsVars>>

\* jbr.c:968-969, fio_state_callback_remove and fio_stop
ShutdownStop ==
  \E t \in Callers \cup {Main} :
    /\ tpc[t] = "sd_stop"
    /\ fio' = [fio EXCEPT !.prestart = FALSE, !.stop = TRUE]
    /\ life' = [life EXCEPT !.stops = @ + 1]
    /\ tpc' = [tpc EXCEPT ![t] = "sd_join"]
    /\ UNCHANGED <<opts, pjbr, jbr, barrier, tl, HttpVars, WsVars>>

\* jbr.c:970-972, pthread_join unless blocking: returns once the worker
\* has exited
ShutdownJoin ==
  \E t \in Callers \cup {Main} :
    /\ tpc[t] = "sd_join"
    /\ \E b \in Read(opts.blocking, BOOLEAN) :
         IF b
           THEN /\ tpc' = [tpc EXCEPT ![t] = "sd_rel"]
                /\ life' = [life EXCEPT !.uaf = Touch(t, "http")]
           ELSE /\ tpc[Worker] \in {"exited", "joined"}
                /\ tpc' = [tpc EXCEPT ![t] = "sd_rel", ![Worker] = "joined"]
                /\ life' = [life EXCEPT !.joins = @ + 1,
                                        !.uaf = Touch(t, "worker_thread")]
    /\ UNCHANGED <<opts, pjbr, jbr, barrier, fio, tl, HttpVars, WsVars>>

\* jbr.c:913, JBR jbr = *pjbr
ReleaseRead ==
  \E t \in Callers \cup {Main} :
    /\ tpc[t] = "sd_rel"
    /\ tl' = [tl EXCEPT ![t].rel = pjbr]
    /\ tpc' = [tpc EXCEPT ![t] = "sd_free"]
    /\ UNCHANGED <<opts, pjbr, jbr, barrier, fio, life, HttpVars, WsVars>>

\* jbr.c:914, free(jbr)
ReleaseFree ==
  \E t \in Callers \cup {Main} :
    /\ tpc[t] = "sd_free"
    /\ IF tl[t].rel = JBRH
         THEN /\ jbr' = Free(jbr)
              /\ life' = [life EXCEPT !.frees = @ + 1, !.uaf = Touch(t, "free")]
         ELSE UNCHANGED <<jbr, life>>
    /\ tpc' = [tpc EXCEPT ![t] = "sd_null"]
    /\ UNCHANGED <<opts, pjbr, barrier, fio, tl, HttpVars, WsVars>>

\* jbr.c:915 and jbr.c:975, *pjbr = 0, and the return of jbr_shutdown
ReleaseNull ==
  \E t \in Callers \cup {Main} :
    /\ tpc[t] = "sd_null"
    /\ pjbr' = NULLH
    /\ tpc' = [tpc EXCEPT ![t] = ReturnPc(t)]
    /\ tl' = ReturnLocals(t)
    /\ life' = [life EXCEPT !.ret = ReturnRet(t)]
    /\ UNCHANGED <<opts, jbr, barrier, fio, HttpVars, WsVars>>

\* the lifecycle of a gateway that serves requests: jbr_start has returned
\* success in non-blocking mode, the worker is in the event loop
Serving ==
  /\ opts = [enabled |-> TRUE, blocking |-> FALSE]
  /\ pjbr = JBRH
  /\ jbr = [mem |-> "live", terminated |-> FALSE, rc |-> OK]
  /\ barrier = [pthread_barrier_init EXCEPT
                  !.state = "destroyed", !.count = 2,
                  !.arrived = [t \in Threads |->
                                 IF t \in {Main, Worker} THEN 1 ELSE 0]]
  /\ fio = [prestart |-> TRUE, running |-> TRUE, stop |-> FALSE]
  /\ tpc = [t \in Threads |->
              IF t = Main THEN "returned"
              ELSE IF t = Worker THEN "w_loop" ELSE "idle"]
  /\ tl = [t \in Threads |-> NoLocals]
  /\ life = [NoLife EXCEPT !.ret = OK, !.listen = "ok"]

----------------------------------------------------------------------------
(* WebSocket: _jbr_on_http_upgrade, _jbr_ws_on_open, _jbr_ws_on_message,   *)
(* _jbr_ws_on_close.                                                       *)

JBR_MAX_KEY_LEN == 36

JBWS_SET == 1
JBWS_ADD == 2
JBWS_DEL == 3
JBWS_PATCH == 4

\* no handler was called
NoCall == [fn |-> "none", key |-> <<>>, coll |-> <<>>, id |-> 0, data |-> <<>>]

\* the upgrade request: path, requested protocol, X-Access-Token, and
\* whether calloc and http_upgrade2ws succeed
NoUpgrade ==
  [path |-> <<>>, protocol |-> <<>>, token |-> NULL, mem |-> TRUE, up |-> TRUE]

\* state: none, open, closing, closed or rejected; status: the answer to
\* the upgrade request (101 once upgraded); read_anon: wctx->read_anon;
\* wctx: the memory of the JBWCTX; bound: wctx->ws is set; msg, call: the
\* last message and the handler _jbr_ws_on_message called for it
NoWs ==
  [state |-> "none", status |-> 0, read_anon |-> FALSE, wctx |-> "none",
   bound |-> FALSE, up |-> NoUpgrade, msg |-> <<>>, call |-> NoCall]

\* fiobj_type_is(h, FIOBJ_T_STRING): false for a null handle and for an array
fiobj_type_is_string(h) == h \notin {NULL, FIOBJ_ARRAY}

\* the request is answered with the status st, the JBWCTX is left as w
Rejected(u, st, w, anon) ==
  [NoWs EXCEPT !.state = "rejected", !.status = st, !.wctx = w,
               !.read_anon = anon, !.up = u]

\* jbr.c:828-877
_jbr_on_http_upgrade(cfg, u) ==
  IF (Len(u.path) # 1 \/ u.path[1] # "/")
       \/ (Len(u.protocol) # 9 \/ u.protocol[2] # "e")
    THEN Rejected(u, 400, "none", FALSE)
  ELSE IF ~u.mem THEN Rejected(u, 500, "none", FALSE)
  ELSE
    LET gate == cfg.access_token # NULL
        h == u.token
        anon == gate /\ h = NULL /\ cfg.read_anon
    IN IF gate /\ h = NULL /\ ~cfg.read_anon
         THEN Rejected(u, 401, "freed", FALSE)
       ELSE IF gate /\ ~fiobj_type_is_string(h)
         THEN Rejected(u, 400, "freed", anon)
       ELSE IF gate /\ ~TokenMatches(cfg, h)
         THEN Rejected(u, 403, "freed", anon)
       ELSE IF ~u.up
         THEN Rejected(u, 500, "freed", anon)
       ELSE [NoWs EXCEPT !.state = "open", !.status = 101, !.wctx = "live",
                         !.read_anon = anon, !.up = u]

\* first position >= i of s that holds a white space, Len(s)+1 if none
RECURSIVE SkipNonSpaces(_, _)
SkipNonSpaces(s, i) ==
  IF i <= Len(s) /\ ~IsSpace(s[i]) THEN SkipNonSpaces(s, i + 1) ELSE i

\* the bytes of s from position i to its end
From(s, i) == SubSeq(s, i, Len(s))

Min(a, b) == IF a < b THEN a ELSE b

\* jbr.c:752-764: the operation the command at position c of s selects,
\* 0 for none; e is the position after the command
WsOp(s, c, e) ==
  LET data == From(s, c)
      pos == e - c
  IN IF ~(e <= Len(s)) THEN 0
     ELSE IF StrnEq(<<"s", "e", "t">>, data, pos) THEN JBWS_SET
     ELSE IF StrnEq(<<"a", "d", "d">>, data, pos) THEN JBWS_ADD
     ELSE IF StrnEq(<<"d", "e", "l">>, data, pos) THEN JBWS_DEL
     ELSE IF StrnEq(<<"p", "a", "t", "c", "h">>, data, pos) THEN JBWS_PATCH
     ELSE 0

\* jbr.c:766-820: the mutation wsop of the message s, whose command ends
\* before position e
WsMutation(s, key, wsop, e) ==
  LET f == SkipSpaces(s, e)
      g == SkipNonSpaces(s, f)
      coll == SubSeq(s, f, g - 1)
      h == SkipSpaces(s, g)
      i == Min(SkipDigits(s, h), h + JBNUMBUF_SIZE - 1)
      j == SkipSpaces(s, i)
      id == DecValue(s, h, i)
  IN IF f > Len(s) THEN NoCall
     ELSE IF g - f < 1 \/ Len(s) - g + 1 < 1
               \/ g - f > EJDB_COLLECTION_NAME_MAX_LEN THEN NoCall
     ELSE IF h > Len(s) THEN NoCall
     ELSE IF wsop = JBWS_ADD
       THEN [fn |-> "add", key |-> key, coll |-> coll, id |-> 0,
             data |-> From(s, h)]
     ELSE IF id < 1 THEN NoCall
     ELSE IF wsop = JBWS_SET
       THEN [fn |-> "set", key |-> key, coll |-> coll, id |-> id,
             data |-> From(s, j)]
     ELSE IF wsop = JBWS_DEL
       THEN [fn |-> "del", key |-> key, coll |-> coll, id |-> id,
             data |-> <<>>]
     ELSE [fn |-> "patch", key |-> key, coll |-> coll, id |-> id,
           data |-> From(s, j)]

\* jbr.c:720-825: the handler a text message s makes _jbr_ws_on_message call
_jbr_ws_on_message(s) ==
  LET a == SkipSpaces(s, 1)
      b == SkipNonSpaces(s, a)
      key == SubSeq(s, a, b - 1)
      c == SkipSpaces(s, b)
      e == SkipNonSpaces(s, c)
      wsop == WsOp(s, c, e)
  IN IF Len(s) < 1 \/ a > Len(s) THEN NoCall
     ELSE IF b > Len(s) \/ b - a > JBR_MAX_KEY_LEN THEN NoCall
     ELSE IF c > Len(s) THEN NoCall
     ELSE IF wsop # 0 THEN WsMutation(s, key, wsop, e)
     ELSE [fn |-> "query", key |-> key, coll |-> <<>>, id |-> 0,
           data |-> From(s, c)]

\* the upgrade requests explored
WsPaths == {<<"/">>, <<"/", "c">>}

WsProtocols ==
  {<<"w", "e", "b", "s", "o", "c", "k", "e", "t">>,
   <<"w", "x", "b", "s", "o", "c", "k", "e", "t">>,
   <<"s", "s", "e">>}

Upgrades ==
  [path : WsPaths, protocol : WsProtocols, token : TokenHdrs,
   mem : BOOLEAN, up : BOOLEAN]

\* the messages explored: a key, white space, a command and the rest;
\* messages that end before the command, begin with white space, or hold
\* a key of more than JBR_MAX_KEY_LEN bytes
LongKey == [i \in 1..(JBR_MAX_KEY_LEN + 1) |-> "k"]

WsCommands ==
  {<<"s">>, <<"s", "e">>, <<"s", "e", "t">>, <<"s", "e", "t", "s">>,
   <<"a">>, <<"a", "d", "d">>, <<"d">>, <<"d", "e", "l">>,
   <<"p", "a", "t">>, <<"p", "a", "t", "c", "h">>, <<"x">>, <<"@", "c">>}

WsRests ==
  {<<>>, <<" ">>, <<" ", "c", " ", "1", " ", "j">>, <<" ", "c", " ", "j">>,
   <<" ", "c", " ", "0", " ", "j">>, <<" ", "c", " ", "1">>,
   <<" ", "c", "c", "c", " ", "1", " ", "j">>}

WsMessages ==
  {<<"k">> \o sep \o cmd \o rest :
     sep \in {<<" ">>, <<" ", "\t">>}, cmd \in WsCommands, rest \in WsRests}
  \cup {<<>>, <<" ">>, <<"k">>, <<"k", " ">>,
        <<" ", "k", " ", "s", "e", "t", " ", "c", " ", "1", " ", "j">>,
        <<" ", "k", " ", "x">>,
        LongKey \o <<" ", "x">>,
        LongKey \o <<" ", "a", "d", "d", " ", "c", " ", "j">>}

\* facil.io calls _jbr_on_http_upgrade for an upgrade request
OnHttpUpgrade ==
  /\ ws.state = "none"
  /\ \E u \in Upgrades : ws' = _jbr_on_http_upgrade(http, u)
  /\ UNCHANGED <<HttpVars, LifeVars>>

\* jbr.c:669-674
WsOnOpen ==
  /\ ws.state = "open"
  /\ ~ws.bound
  /\ ws' = [ws EXCEPT !.bound = TRUE]
  /\ UNCHANGED <<HttpVars, LifeVars>>

\* jbr.c:715-826: a binary message closes the connection, a text message
\* is parsed
WsOnMessage ==
  /\ ws.state = "open"
  /\ \/ ws' = [ws EXCEPT !.state = "closing", !.msg = <<>>, !.call = NoCall]
     \/ \E s \in WsMessages :
          ws' = [ws EXCEPT !.bound = @ \/ Len(s) >= 1, !.msg = s,
                           !.call = _jbr_ws_on_message(s)]
  /\ UNCHANGED <<HttpVars, LifeVars>>

\* jbr.c:676-681
WsOnClose ==
  /\ ws.state \in {"open", "closing"}
  /\ ws' = [ws EXCEPT !.state = "closed", !.wctx = "freed"]
  /\ UNCHANGED <<HttpVars, LifeVars>>

----------------------------------------------------------------------------
(* State machine.                                                          *)

NoRequest == Request(<<>>, NULL, NULL, NULL, EmptyBody)

InitDb == [i \in 1..MaxId |-> IF i = 1 THEN "d1" ELSE NoDoc]

\* no previous request
NoPrev == [op |-> "none", coll |-> NULL, id |-> 0, doc |-> NoDoc]

HttpInit ==
  /\ http \in Configs
  /\ db = InitDb
  /\ req = NoRequest
  /\ rctx = ZeroCtx
  /\ ux = NoUx
  /\ pc = "idle"
  /\ out = <<>>
  /\ dbcalls = <<>>
  /\ route = "none"
  /\ authed = FALSE
  /\ prev = NoPrev

\* the gateway serves requests: started in non-blocking mode, no WebSocket
Init == HttpInit /\ Serving /\ ws = NoWs

\* the request presents the configured token
PresentsToken(cfg, q) ==
  /\ cfg.access_token # NULL
  /\ q.token \notin {NULL, FIOBJ_ARRAY}
  /\ TokenMatches(cfg, q.token)

\* facil.io calls _jbr_on_http_request with the request q
Serve(q) ==
  /\ pc = "idle"
  /\ \E s \in _jbr_on_http_request(http, q, db) :
       /\ req' = s.h.req
       /\ rctx' = s.h.r
       /\ out' = s.h.out
       /\ db' = s.h.db
       /\ dbcalls' = s.h.calls
       /\ ux' = s.ux
       /\ pc' = s.pc
       /\ route' = s.route
  /\ authed' = (authed \/ PresentsToken(http, q))
  /\ UNCHANGED <<http, prev, LifeVars, WsVars>>

\* a request of the gateway specification
OnHttpRequest ==
  /\ pc = "idle"
  /\ \E m \in Methods, p \in HttpPaths, t \in TokenHdrs :
       \E x \in HintsFor(m, p), b \in BodiesFor(m) :
         Serve(Request(m, p, t, x, b))

\* a request of the parser specification: every method on every path,
\* without token and hints
OnParsedRequest ==
  /\ pc = "idle"
  /\ \E m \in Methods, p \in AllPaths :
       Serve(Request(m, p, NULL, NULL, ParseBody(m, p)))

\* ejdb_exec calls _jbr_query_visitor with its next result document; a
\* query with an apply clause has written the document before
QueryVisitor ==
  /\ pc = "exec"
  /\ ux.vrc = OK
  /\ ux.rest # <<>>
  /\ LET id == Head(ux.rest)
         doc == IF jql_has_apply(req.body) THEN req.body.doc ELSE db[id]
         d1 == [db EXCEPT ![id] = doc]
     IN \E w \in _jbr_query_visitor(Hs(req, rctx, out, d1, dbcalls), id, doc) :
          /\ req' = w.h.req
          /\ rctx' = w.h.r
          /\ out' = w.h.out
          /\ db' = d1
          /\ ux' = [ux EXCEPT !.rest = Tail(@), !.n = @ + 1, !.vrc = w.rc,
                               !.seen = Append(@, <<id, doc>>),
                               !.heap = @ \o w.h.heap]
  /\ UNCHANGED <<http, pc, dbcalls, route, authed, prev, LifeVars, WsVars>>

\* the codes ejdb_exec can fail with by itself
ExecErrors ==
  {"IW_ERROR_IO", "JQL_ERROR_QUERY_PARSE", "JQL_ERROR_NO_COLLECTION"}

\* what ejdb_exec can return now: the error of the visitor, success after
\* the last document, or an error of its own
ExecResults ==
  IF ux.vrc # OK THEN {ux.vrc}
  ELSE (IF ux.rest = <<>> THEN {OK} ELSE {}) \cup ExecErrors

\* ejdb_exec returns and _jbr_on_query runs to its end
QueryReturn ==
  /\ pc = "exec"
  /\ \E rc \in ExecResults :
       \E x \in QueryAfterExec(Hs(req, rctx, out, db, dbcalls), rc) :
          /\ req' = x.h.req
          /\ rctx' = x.h.r
          /\ out' = x.h.out
          /\ ux' = [ux EXCEPT !.ret = rc, !.rc = x.rc, !.heap = @ \o x.h.heap]
  /\ pc' = "done"
  /\ UNCHANGED <<http, db, dbcalls, route, authed, prev, LifeVars, WsVars>>

\* facil.io drops the http_s of the served request; the JBRCTX of the
\* handler is gone with its stack frame
Released ==
  /\ pc = "done"
  /\ pc' = "idle"
  /\ req' = NoRequest
  /\ rctx' = ZeroCtx
  /\ out' = <<>>
  /\ dbcalls' = <<>>
  /\ route' = "none"
  /\ ux' = NoUx
  /\ UNCHANGED <<http, db, authed, LifeVars, WsVars>>

Release == Released /\ UNCHANGED prev

\* the request was answered by one call of send that facil.io sent, with
\* the status st
Answered(st) ==
  Len(out) = 1 /\ out[1].op = "send" /\ out[1].res = "sent" /\ out[1].status = st

\* what the client knows after the request: the document it has put or
\* deleted with a 200 answer
Noted ==
  IF route \in {"put", "delete"} /\ Answered(200)
    THEN [op |-> route, coll |-> rctx.collection, id |-> rctx.id,
          doc |-> IF route = "put" THEN req.body.doc ELSE NoDoc]
    ELSE NoPrev

\* Release, with the answer of the request remembered by the client
ReleaseNoted == Released /\ prev' = Noted

Next == OnHttpRequest \/ QueryVisitor \/ QueryReturn \/ Release

Spec == Init /\ [][Next]_vars

NextParse == OnParsedRequest \/ QueryVisitor \/ QueryReturn \/ Release

ParseSpec == Init /\ [][NextParse]_vars

\* the paths of the round trip specification
RoundPaths == {<<"/", "c", "/", "1">>, <<"/", "c", "/", "2">>}

\* a request of the round trip specification: a document is put, deleted
\* or read
OnRoundRequest ==
  /\ pc = "idle"
  /\ \E m \in {GET_, PUT_, DELETE_}, p \in RoundPaths, t \in {NULL, Token} :
       \E b \in BodiesFor(m) :
         Serve(Request(m, p, t, NULL, b))

NextRound == OnRoundRequest \/ ReleaseNoted

RoundSpec == Init /\ [][NextRound]_vars

\* jbr_start is about to be called with the options opts
LifeInit ==
  /\ HttpInit
  /\ http = [access_token |-> NULL, access_token_len |-> 0, read_anon |-> FALSE]
  /\ opts \in [enabled : BOOLEAN, blocking : BOOLEAN]
  /\ pjbr = NULLH
  /\ jbr = NoJbr
  /\ barrier = NoBarrier
  /\ fio = NoFio
  /\ tpc = [t \in Threads |->
              IF t = Main THEN "start"
              ELSE IF t = Worker THEN "none" ELSE "idle"]
  /\ tl = [t \in Threads |-> NoLocals]
  /\ life = NoLife
  /\ ws = NoWs

LifeNext ==
  \/ StartEnter \/ BarrierInit \/ ThreadCreate \/ BarrierArrive
  \/ BarrierPass \/ BarrierDestroy \/ SetRunning \/ ReadRc \/ Publish
  \/ Listen \/ CallbackAdd \/ FioStart \/ LoopExit \/ BlockingRc
  \/ BlockingTerminate \/ ShutdownCall \/ ShutdownEnter \/ ShutdownCas
  \/ ShutdownStop \/ ShutdownJoin \/ ReleaseRead \/ ReleaseFree
  \/ ReleaseNull

LifeSpec == LifeInit /\ [][LifeNext]_vars

\* the steps of the threads: everything but the decision of the host to
\* call jbr_shutdown
ThreadSteps ==
  \/ StartEnter \/ BarrierInit \/ ThreadCreate \/ BarrierArrive
  \/ BarrierPass \/ BarrierDestroy \/ SetRunning \/ ReadRc \/ Publish
  \/ Listen \/ CallbackAdd \/ FioStart \/ LoopExit \/ BlockingRc
  \/ BlockingTerminate \/ ShutdownEnter \/ ShutdownCas
  \/ ShutdownStop \/ ShutdownJoin \/ ReleaseRead \/ ReleaseFree
  \/ ReleaseNull

\* the lifecycle with threads that are scheduled: a thread that can take a
\* step takes one
LiveSpec == LifeSpec /\ WF_vars(ThreadSteps)

WsNext == OnHttpUpgrade \/ WsOnOpen \/ WsOnMessage \/ WsOnClose

WsSpec == Init /\ [][WsNext]_vars

----------------------------------------------------------------------------
(* Properties.                                                             *)

\* the request went past the token gate to the dispatch
Dispatched ==
  route \in {"get", "post", "put", "patch", "delete", "query", "dispatch400"}

GateRejected == route \in {"gate400", "gate401", "gate403"}

IsSend(e) == e.op \in {"send", "send_error"}

\* the calls of send and send_error of the request, in order
SendCalls == SelectSeq(out, IsSend)

IsResponse(e) == IsSend(e) /\ e.res # "invalid"

\* the status responses handed to facil.io
Responses == SelectSeq(out, IsResponse)

HasEvent(op) == \E i \in 1..Len(out) : out[i].op = op

\* the request is answered by http_send_error with the status st
AnsweredError(st) ==
  Len(out) = 1 /\ out[1].op = "send_error" /\ out[1].status = st

\* the request is a POST on the root path
PostRoot == req.method = POST_ /\ req.path \in {NULL, <<"/">>}

\* C1: with a token configured, a request that went past the token gate
\* either presented one X-Access-Token value equal to the token, or
\* presented none while anonymous read is enabled and it is a GET, a HEAD or
\* a POST on the root path; read_anon is set in the second case only.
C1_TokenGate ==
  (pc # "idle" /\ http.access_token # NULL /\ Dispatched) =>
     \/ /\ req.token \notin {NULL, FIOBJ_ARRAY}
        /\ req.token = http.access_token
        /\ ~rctx.read_anon
     \/ /\ req.token = NULL
        /\ http.read_anon
        /\ req.method \in {GET_, HEAD_} \/ PostRoot
        /\ rctx.read_anon

\* a header-less query on the root path is served anonymously
C1_Witness ==
  /\ http.access_token # NULL
  /\ route = "query"
  /\ req.token = NULL
  /\ rctx.read_anon
  /\ pc = "exec"

\* C2: the token gate runs before the parser: with a token configured, a
\* request without X-Access-Token that is not eligible for anonymous read is
\* answered 401 and one with a differing value is answered 403, whatever its
\* method and path.
C2_GateBeforeParser ==
  (pc # "idle" /\ http.access_token # NULL) =>
     /\ (/\ req.token = NULL
         /\ ~(http.read_anon /\ (req.method \in {GET_, HEAD_} \/ PostRoot)))
           => AnsweredError(401)
     /\ (req.token \notin {NULL, FIOBJ_ARRAY} /\ req.token # http.access_token)
           => AnsweredError(403)

\* the request is handled by an operation that changes documents
Mutating ==
  \/ route \in {"put", "post", "patch", "delete"}
  \/ route = "query" /\ jql_has_apply(req.body)

\* C3 (states): while a token is configured and no request has presented it
\* the database holds what it held at the start; a mutating request with
\* read_anon set is answered 403 without a call of the database.
C3_AnonInv ==
  /\ (http.access_token # NULL /\ ~authed) => db = InitDb
  /\ (pc # "idle" /\ rctx.read_anon /\ Mutating) =>
        /\ pc = "done"
        /\ dbcalls = <<>>
        /\ ux = NoUx
        /\ Len(out) = 1 /\ IsSend(out[1]) /\ out[1].status = 403

\* C3 (steps): no step of a request with read_anon set changes the database
C3_AnonStep == (rctx.read_anon \/ rctx'.read_anon) => db' = db

\* C3: a request processed with read_anon = true never changes the database
C3_AnonReadOnly == []C3_AnonInv /\ [][C3_AnonStep]_vars

\* an anonymous query with an apply clause was refused
C3_Witness ==
  /\ pc = "done"
  /\ route = "query"
  /\ rctx.read_anon
  /\ jql_has_apply(req.body)
  /\ Len(out) = 1 /\ out[1].status = 403
  /\ db = InitDb

\* C4: a GET, HEAD, PUT, PATCH or DELETE that calls the database does so
\* with 1 <= id and 1 <= collection_len <= EJDB_COLLECTION_NAME_MAX_LEN.
C4_IdAndCollection ==
  (route \in {"get", "put", "patch", "delete"} /\ dbcalls # <<>>) =>
     /\ rctx.id >= 1
     /\ rctx.collection_len >= 1
     /\ rctx.collection_len <= EJDB_COLLECTION_NAME_MAX_LEN

NoSlash(s) == \A i \in 1..Len(s) : s[i] # "/"

\* decimal digits with a value of at least 1
PositiveDecimal(s) ==
  /\ Len(s) >= 1
  /\ \A i \in 1..Len(s) : IsDigit(s[i])
  /\ \E i \in 1..Len(s) : s[i] # "0"

\* "/" collection
IsCollPath(p) == Len(p) >= 2 /\ p[1] = "/" /\ NoSlash(Tail(p))

\* "/" collection "/" id with the second slash at position k
IsCollIdPathAt(p, k) ==
  /\ p[1] = "/" /\ p[k] = "/"
  /\ NoSlash(SubSeq(p, 2, k - 1))
  /\ PositiveDecimal(SubSeq(p, k + 1, Len(p)))

IsCollIdPath(p) == \E k \in 3..(Len(p) - 1) : IsCollIdPathAt(p, k)

CollIdSlash(p) == CHOOSE k \in 3..(Len(p) - 1) : IsCollIdPathAt(p, k)

\* the route the REST grammar gives a method on a path of one of its three
\* shapes: a handler, "400", or "unspecified" for a path of no shape
GrammarRoute(m, p) ==
  IF m \notin {GET_, HEAD_, PUT_, POST_, PATCH_, DELETE_} THEN "400"
  ELSE IF p = <<"/">> THEN (IF m = POST_ THEN "query" ELSE "400")
  ELSE IF p = NULL THEN "unspecified"
  ELSE IF IsCollPath(p)
    THEN IF Len(p) - 1 > EJDB_COLLECTION_NAME_MAX_LEN THEN "400"
         ELSE IF m = POST_ THEN "post" ELSE "400"
  ELSE IF IsCollIdPath(p)
    THEN IF CollIdSlash(p) - 2 > EJDB_COLLECTION_NAME_MAX_LEN THEN "400"
         ELSE CASE m \in {GET_, HEAD_} -> "get"
                [] m = PUT_ -> "put"
                [] m = PATCH_ -> "patch"
                [] m = DELETE_ -> "delete"
                [] OTHER -> "400"
  ELSE "unspecified"

\* C5: a request that the token gate does not reject is routed as the REST
\* grammar says: POST on "/" to the query handler, POST on "/{coll}" to
\* insert, GET, HEAD, PUT, DELETE, PATCH on "/{coll}/{id}" to their document
\* operation, and every other combination of method and path shape, as well
\* as every unknown method, is answered 400.
C5_Routing ==
  pc # "idle" =>
    LET g == GrammarRoute(req.method, req.path)
    IN \/ g = "unspecified"
       \/ GateRejected
       \/ /\ g = "400"
          /\ route \in {"parse400", "dispatch400"}
          /\ AnsweredError(400)
       \/ g \notin {"400", "unspecified"} /\ route = g

\* a PATCH on "/c/1" reached the patch handler
C5_Witness ==
  /\ route = "patch"
  /\ req.method = PATCH_
  /\ req.path = <<"/", "c", "/", "1">>
  /\ dbcalls # <<>>

\* the chunked header block of the request has been written
Started == \E i \in 1..Len(out) : out[i].op = "headers" /\ out[i].res = "sent"

\* a document operation is served with the id of its path, at least 1
\* (the requests that reach a handler with id 0 are the subject of C4)
ProperId == route \in {"get", "put", "patch", "delete"} => rctx.id >= 1

\* one status-only response and no chunked stream
StatusOnly ==
  /\ Len(Responses) = 1
  /\ ~Started
  /\ ~HasEvent("write")

\* a chunked stream that was started and is terminated by "0\r\n\r\n"
ChunkedTerminated ==
  /\ Len(Responses) = 0
  /\ Started
  /\ \E i \in 1..Len(out) :
       /\ out[i].op = "write" /\ out[i].data = <<Terminator>>
       /\ \A j \in (i + 1)..Len(out) : out[j].op = "complete"

\* C6: every request ends with exactly one of: a single status-only
\* response, or a chunked stream terminated by the zero-size chunk.  Stated
\* for the requests on which send is called at most once; a second call of
\* send is the subject of C7.
C6_OneResponse ==
  (pc = "done" /\ ProperId /\ Len(SendCalls) <= 1) =>
     \/ StatusOnly /\ ~ChunkedTerminated
     \/ ~StatusOnly /\ ChunkedTerminated

\* C7: a request that did not start a chunked stream calls send exactly
\* once, whatever the database returned.
C7_SendOnce ==
  (pc = "done" /\ ProperId /\ ~HasEvent("headers")) => Len(SendCalls) = 1

\* the statuses of the send calls of the request
RECURSIVE Statuses(_)
Statuses(s) == IF s = <<>> THEN <<>> ELSE <<Head(s).status>> \o Statuses(Tail(s))

\* C8: an authorized PATCH with a body is answered 400 when ejdb_patch
\* reports an input error, 500 on another error, 200 with an empty body on
\* success: the handler hands the response writer that status, and no
\* other.
C8_PatchStatus ==
  (pc = "done" /\ route = "patch" /\ rctx.id >= 1 /\ dbcalls # <<>>) =>
     LET rc == dbcalls[1].rc
     IN /\ rc \in PatchInputErrors => Statuses(SendCalls) = <<400>>
        /\ (rc # OK /\ rc \notin PatchInputErrors) => Statuses(SendCalls) = <<500>>
        /\ rc = OK => (Statuses(SendCalls) = <<200>> /\ SendCalls[1].data = <<>>)

\* C9: once the chunked header block is written no send or send_error is
\* called for the request and its status stays 200.
C9_NoSendAfterHeaders ==
  \A i \in 1..Len(out) :
     (out[i].op = "headers" /\ out[i].res = "sent") =>
        /\ req.status = 200
        /\ \A j \in (i + 1)..Len(out) : ~IsSend(out[j])

\* ejdb_exec returned success without a call of the visitor
EmptyResult == pc = "done" /\ route = "query" /\ ux.ret = OK /\ ux.n = 0

IsWrite(e) == e.op = "write"

\* the fio_write calls of the request, in order
Writes == SelectSeq(out, IsWrite)

\* w is a sequence of chunks, each a size line of its payload, the payload
\* and "\r\n", closed by the terminating chunk
RECURSIVE Framed(_)
Framed(w) ==
  \/ Len(w) = 1 /\ w[1].data = <<Terminator>>
  \/ /\ Len(w) >= 4
     /\ w[2].data # <<>>
     /\ w[1].data = <<SizeLine(SeqSum(w[2].data))>>
     /\ w[3].data = <<CRLF>>
     /\ Framed(SubSeq(w, 4, Len(w)))

\* the concatenation of the payloads of the chunks of w
RECURSIVE Payloads(_)
Payloads(w) ==
  IF Len(w) >= 3 /\ w[1].data # <<>> /\ w[1].data[1].k = "size"
    THEN w[2].data \o Payloads(SubSeq(w, 4, Len(w)))
    ELSE <<>>

\* the request carries the explain hint
ExplainHint == req.hints \notin {NULL, FIOBJ_ARRAY} /\ HasExplain(req.hints)

\* the frames of the documents of seen, in order
Frames(seen) == [i \in 1..Len(seen) |-> Frame(seen[i][1], seen[i][2])]

\* ejdb_exec succeeded and _jbr_on_query reached its end without an error
QuerySucceeded ==
  pc = "done" /\ route = "query" /\ ux.ret = OK /\ ux.rc = OK

\* C11: a successful query that visited at least one document wrote a
\* chunked stream whose payloads, concatenated, are the explain prefix (if
\* any), the frames of the visited documents in the order of the visits and
\* a final "\r\n"; the terminating chunk is the last write.
C11_ChunkStream ==
  (QuerySucceeded /\ ux.n >= 1) =>
     /\ out[1].op = "headers"
     /\ \A i \in 1..Len(out) : out[i].op \in {"headers", "write", "complete"}
     /\ \A i \in 1..Len(out) : out[i].res = "sent"
     /\ Framed(Writes)
     /\ Payloads(Writes) =
          (IF ExplainHint THEN <<ExplainText, Separator>> ELSE <<>>)
            \o Frames(ux.seen) \o <<CRLF>>
     /\ out[Len(out)].op = "complete"
     /\ out[Len(out) - 1].data = <<Terminator>>

\* two documents were streamed in more than one chunk, after the explain
\* prefix
C11_Witness ==
  /\ QuerySucceeded
  /\ ux.n = 2
  /\ ExplainHint
  /\ Len(Writes) >= 7

\* C12: a successful query with the explain hint answers with a body that
\* begins with the explain log and the separator, written once and before
\* every frame, whatever the number of result documents; the explain
\* buffer is released.
C12_ExplainFirst ==
  (QuerySucceeded /\ ExplainHint) =>
     LET b == Payloads(Writes)
     IN /\ Len(b) >= 2
        /\ b[1] = ExplainText
        /\ b[2] = Separator
        /\ \A i \in 3..Len(b) : b[i].k \notin {"explain", "sep"}
        /\ rctx.explain = NULLX

\* C19: a HEAD on an existing document is answered with the size of the
\* printed document as length and without a body: the JSON text is
\* materialized for GET only.
C19_HeadCounts ==
  (/\ pc = "done" /\ route = "get" /\ req.method = HEAD_ /\ rctx.id >= 1
   /\ dbcalls # <<>> /\ dbcalls[1].rc = OK
   /\ Len(out) = 1 /\ out[1].status = 200) =>
     /\ out[1].len = JsonLen(db[rctx.id])
     /\ out[1].data = <<>>

\* the errors that make a GET of a readable document answer 500
GetFailures == {ErrText(e) : e \in OtherErrors \cup {"IW_ERROR_ALLOC"}}

\* C20: a GET that follows a PUT answered 200 on the same collection and
\* id returns 200 with the put document, and a GET that follows a DELETE
\* answered 200 returns 404; the GET answers 500 only when the database or
\* an allocation fails.
C20_RoundTrip ==
  (/\ pc = "done" /\ route = "get" /\ req.method = GET_
   /\ prev.op \in {"put", "delete"}
   /\ rctx.collection = prev.coll /\ rctx.id = prev.id) =>
     /\ Len(out) = 1
     /\ \/ out[1].status = 500 /\ out[1].data \in {<<x>> : x \in GetFailures}
        \/ /\ prev.op = "put"
           /\ out[1].op = "send" /\ out[1].status = 200
           /\ out[1].ctype = "application/json"
           /\ out[1].data = <<JsonText(prev.doc)>>
        \/ /\ prev.op = "delete"
           /\ out[1].status = 404 /\ out[1].data = <<>>

\* the 5000 byte document put under id 2 has been read back
C20_Witness ==
  /\ pc = "done" /\ route = "get" /\ req.method = GET_
  /\ prev = [op |-> "put", coll |-> DbColl, id |-> 2, doc |-> "d2"]
  /\ rctx.id = 2
  /\ Answered(200)
  /\ out[1].data = <<JsonText("d2")>>


\* jbr_start has returned in non-blocking mode after it created the worker
StartedWorker ==
  /\ opts.enabled
  /\ ~opts.blocking
  /\ life.ret \in StartRcs

\* C13: in non-blocking mode, whenever jbr_start has returned, either the
\* listen succeeded, the worker has reached the pre-start point of the
\* event loop and jbr_start returned success, or the listen failed and
\* jbr_start returned the error the worker recorded before it reached the
\* barrier; it never returns while the listen outcome is undetermined.
C13_StartBarrier ==
  StartedWorker =>
    /\ barrier.arrived[Worker] = 1
    /\ ~barrier.late
    /\ \/ /\ life.ret = OK
          /\ life.listen = "ok"
          /\ tpc[Worker] \in {"w_pre_in", "w_loop", "exited", "joined"}
       \/ /\ life.ret = "JBR_ERROR_HTTP_LISTEN"
          /\ life.listen = "fail"
          /\ jbr.rc = life.ret
          /\ tpc[Worker] \in {"w_err_in", "exited", "joined"}

\* jbr_start has returned the listen error of the worker
C13_Witness ==
  /\ StartedWorker
  /\ life.ret = "JBR_ERROR_HTTP_LISTEN"
  /\ tpc[Main] = "returned"
  /\ tpc[Worker] = "exited"

\* C14: in non-blocking mode, when jbr_start returns the startup error of
\* the worker, the struct has been released, the worker thread has been
\* joined and no handle is published.
C14_FailedStartCleansUp ==
  (StartedWorker /\ life.ret # OK) =>
    /\ jbr.mem = "freed"
    /\ life.frees = 1
    /\ tpc[Worker] = "joined"
    /\ life.joins = 1
    /\ pjbr = NULLH


\* the calls of jbr_shutdown by the host that have returned
Shutdowns == tl[Main].calls + tl["s1"].calls + tl["s2"].calls

\* no thread is inside jbr_shutdown
Quiet == \A t \in Threads : tpc[t] \notin ShutdownPcs

\* jbr_start gave the caller a handle of a gateway with a worker thread
Published == opts.enabled /\ ~opts.blocking /\ life.ret = OK

\* C15: after any number N >= 1 of jbr_shutdown calls made one after the
\* other, the state is the one a single call leaves: the handle is null,
\* the event loop was stopped once, the worker joined once and the struct
\* freed once when jbr_start had published a handle, and nothing at all
\* was done through a null handle; no call touches the released struct.
C15_ShutdownIdempotent ==
  (life.seq /\ Quiet /\ Shutdowns >= 1) =>
    /\ pjbr = NULLH
    /\ life.uaf = {}
    /\ IF Published
         THEN /\ life.stops = 1
              /\ life.wins = 1
              /\ life.joins = 1
              /\ life.frees = 1
              /\ jbr.mem = "freed"
              /\ tpc[Worker] = "joined"
         ELSE /\ life.stops = 0
              /\ life.joins = 0
              /\ life.frees <= 1

\* four calls in a row on a published handle
C15_Witness ==
  /\ life.seq
  /\ Quiet
  /\ Published
  /\ Shutdowns = MaxShutdowns + 2
  /\ life.frees = 1


\* C16: whatever the interleaving of the jbr_shutdown calls of several
\* threads on a published handle, one call at most wins the
\* compare-and-swap, stops the event loop and joins the worker, the struct
\* is freed once at most, and no thread accesses it after its release.
C16_ConcurrentShutdown ==
  Published =>
    /\ life.wins <= 1
    /\ life.stops <= 1
    /\ life.joins <= 1
    /\ life.frees <= 1
    /\ life.uaf = {}


\* an upgrade request on "/" for the protocol websocket was answered by a
\* gateway with an access token, memory and the upgrade itself not failing
ValidUpgrade ==
  /\ ws.state # "none"
  /\ http.access_token # NULL
  /\ ws.up.path = <<"/">>
  /\ ws.up.protocol = <<"w", "e", "b", "s", "o", "c", "k", "e", "t">>
  /\ ws.up.mem
  /\ ws.up.up

\* the connection was upgraded
Admitted == ws.status = 101 /\ ws.wctx # "none"

\* C17: with a token configured, an upgrade request on "/" with a valid
\* protocol is admitted with read_anon = true when it has no X-Access-Token
\* header and anonymous read is enabled, answered 401 when it has none and
\* anonymous read is disabled, answered 400 for a header given more than
\* once, 403 for a value that differs from the token, and admitted with
\* read_anon = false for the token.
C17_UpgradeGate ==
  ValidUpgrade =>
    IF ws.up.token = NULL
      THEN IF http.read_anon THEN Admitted /\ ws.read_anon
           ELSE ws.status = 401
    ELSE IF ws.up.token = FIOBJ_ARRAY THEN ws.status = 400
    ELSE IF ~TokenMatches(http, ws.up.token) THEN ws.status = 403
    ELSE Admitted /\ ~ws.read_anon

\* the four keywords of the WebSocket protocol and their handlers
Keywords ==
  {<<"s", "e", "t">>, <<"a", "d", "d">>, <<"d", "e", "l">>,
   <<"p", "a", "t", "c", "h">>}

HandlerOf(tok) ==
  CASE tok = <<"s", "e", "t">> -> "set"
    [] tok = <<"a", "d", "d">> -> "add"
    [] tok = <<"d", "e", "l">> -> "del"
    [] tok = <<"p", "a", "t", "c", "h">> -> "patch"
    [] OTHER -> "query"

\* the white space delimited tokens of the last message: where the first
\* begins and ends, where the second begins and ends
Tok ==
  LET a == SkipSpaces(ws.msg, 1)
      b == SkipNonSpaces(ws.msg, a)
      c == SkipSpaces(ws.msg, b)
      e == SkipNonSpaces(ws.msg, c)
  IN [a |-> a, b |-> b, c |-> c, e |-> e,
      key |-> SubSeq(ws.msg, a, b - 1), cmd |-> SubSeq(ws.msg, c, e - 1)]

\* the last message is a text frame with a key of a legal size and a
\* second token
TwoTokens ==
  /\ ws.state = "open"
  /\ Tok.c <= Len(ws.msg)
  /\ Len(Tok.key) <= JBR_MAX_KEY_LEN

\* C18: a mutation handler is called only for a second token that is
\* exactly its keyword; for every other second token, a proper prefix of a
\* keyword included, the query handler is called with the first token as
\* key and everything after the key and the white space as query.
C18_ExactKeyword ==
  TwoTokens =>
    /\ ws.call.fn \in {"set", "add", "del", "patch"} =>
         Tok.cmd \in Keywords /\ ws.call.fn = HandlerOf(Tok.cmd)
    /\ Tok.cmd \notin Keywords =>
         ws.call = [fn |-> "query", key |-> Tok.key, coll |-> <<>>, id |-> 0,
                    data |-> From(ws.msg, Tok.c)]


\* a write of the header block or of the socket
IsSocketWrite(e) == e.op \in {"headers", "write"}

\* the position in out of the first write the socket refused, 0 if none
FailedAt ==
  LET F == {i \in 1..Len(out) : IsSocketWrite(out[i]) /\ out[i].res = "fail"}
  IN IF F = {} THEN 0 ELSE CHOOSE i \in F : \A j \in F : i <= j

\* a write of the streaming query in progress has failed
StreamFailed == route = "query" /\ FailedAt # 0

\* C21 (states): after a failed write of a streaming query the error is
\* handed up, nothing more is written, and the handler ends with
\* http_complete alone when the header block was out, with one 500 response
\* when the failed write was the header block.
C21_FailInv ==
  StreamFailed =>
    LET i == FailedAt
        after == SubSeq(out, i + 1, Len(out))
    IN /\ \A j \in 1..Len(after) : ~IsSocketWrite(after[j])
       /\ pc = "exec" => ux.vrc = "JBR_ERROR_SEND_RESPONSE" /\ after = <<>>
       /\ pc = "done" =>
            /\ ux.rc = "JBR_ERROR_SEND_RESPONSE"
            /\ Len(after) = 1
            /\ IF out[i].op = "headers"
                 THEN /\ ~rctx.data_sent
                      /\ after[1].op = "send"
                      /\ after[1].status = 500
                 ELSE /\ rctx.data_sent
                      /\ after[1].op = "complete"

\* C21 (steps): the visitor is not called again after a failed write
C21_FailStep ==
  (StreamFailed /\ pc' # "idle") => (ux'.n = ux.n /\ ux'.seen = ux.seen)

\* C21: a failed socket write of a streaming query ends the stream: the
\* error is returned up the visitor path, no further document is visited,
\* no further bytes are written, and a 500 is attempted only when the write
\* that failed was the header block.
C21_WriteFailure == []C21_FailInv /\ [][C21_FailStep]_vars

\* a chunk write failed after the header block with a document still to be
\* visited; the handler has returned
C21_Witness ==
  /\ StreamFailed
  /\ pc = "done"
  /\ out[FailedAt].op = "write"
  /\ ux.n = 1
  /\ ux.rest # <<>>


\* the write w is the size line of a chunk
IsSizeLine(w) == Len(w.data) = 1 /\ w.data[1].k = "size"

IsHeaders(e) == e.op = "headers"

\* C22 (states): a chunk has a payload of at least one byte, and of at
\* least JBR_HTTP_CHUNK_SIZE bytes unless it is the chunk of the finish call
\* (the one that ends with the closing "\r\n"); the terminating chunk is
\* written once at most and last; the header block is written once, before
\* every chunk, by the first flush call even if that call emits no chunk.
C22_ChunkInv ==
  route = "query" =>
    LET w == Writes
    IN /\ \A i \in 1..Len(w) :
            /\ w[i].data # <<>>
            /\ IsSizeLine(w[i]) =>
                 /\ w[i].data[1].n > 0
                 /\ i < Len(w) => SeqSum(w[i + 1].data) = w[i].data[1].n
                 /\ (pc = "exec"
                       \/ (i < Len(w) /\ w[i + 1].data[Len(w[i + 1].data)] # CRLF))
                      => w[i].data[1].n >= JBR_HTTP_CHUNK_SIZE
            /\ w[i].data = <<Terminator>> => i = Len(w) /\ pc = "done"
       /\ Len(SelectSeq(out, IsHeaders)) <= 1
       /\ (w # <<>> \/ rctx.data_sent) =>
            out[1].op = "headers" /\ out[1].res = "sent"
       /\ (pc = "exec" /\ ux.n >= 1 /\ ux.vrc = OK) =>
            out[1].op = "headers" /\ rctx.data_sent

\* C22 (steps): when a visitor call has emitted a chunk the assembly buffer
\* is empty
C22_ChunkStep ==
  (/\ pc' = "exec"
   /\ Len(out') > Len(out)
   /\ out'[Len(out')].op = "write"
   /\ out'[Len(out')].res = "sent"
   /\ out'[Len(out')].data = <<CRLF>>) => rctx'.wbuf = Xstr(<<>>)

\* C22: the streaming writer emits a non-final chunk only from a buffer of
\* at least 4096 bytes and leaves the buffer empty after it, never emits a
\* chunk without payload but the one terminating chunk, and writes the
\* header block exactly once, on its first call.
C22_Chunking == []C22_ChunkInv /\ [][C22_ChunkStep]_vars

\* the first visitor call wrote the header block and no chunk, the second
\* one emitted a chunk
C22_Witness ==
  /\ route = "query"
  /\ pc = "exec"
  /\ ux.n = 2
  /\ ux.vrc = OK
  /\ Len(Writes) = 3
  /\ ux.seen[1][2] = "d1"
  /\ rctx.wbuf = Xstr(<<>>)


\* the number of calls op on the buffer b among the first n entries of the
\* heap log
RECURSIVE HeapCount(_, _, _)
HeapCount(op, b, n) ==
  IF n = 0 THEN 0
  ELSE HeapCount(op, b, n - 1) + (IF ux.heap[n] = <<op, b>> THEN 1 ELSE 0)

\* the buffer b was created once at most and never destroyed more often
\* than created
HeapSound(b) ==
  /\ HeapCount("new", b, Len(ux.heap)) <= 1
  /\ \A n \in 0..Len(ux.heap) :
       HeapCount("destroy", b, n) <= HeapCount("new", b, n)

\* every buffer b created was destroyed
HeapReleased(b) ==
  HeapCount("destroy", b, Len(ux.heap)) = HeapCount("new", b, Len(ux.heap))

\* C23: when the query handler has returned, on whatever path, the context
\* holds neither the assembly buffer nor the explain buffer and each buffer
\* that was created has been destroyed exactly once; no buffer is ever
\* destroyed twice, and after a visitor call that returned success the
\* explain buffer is not held any more.
C23_BuffersReleased ==
  route = "query" =>
    /\ HeapSound("wbuf")
    /\ HeapSound("explain")
    /\ pc = "done" =>
         /\ rctx.wbuf = NULLX
         /\ rctx.explain = NULLX
         /\ HeapReleased("wbuf")
         /\ HeapReleased("explain")
    /\ (pc = "exec" /\ ux.n >= 1 /\ ux.vrc = OK) =>
         /\ rctx.explain = NULLX
         /\ rctx.wbuf # NULLX
         /\ HeapReleased("explain")

\* a query with the explain hint failed in the middle of its stream: both
\* buffers were created and both destroyed
C23_Witness ==
  /\ route = "query"
  /\ pc = "done"
  /\ ux.rc # OK
  /\ ux.n >= 1
  /\ HeapCount("new", "wbuf", Len(ux.heap)) = 1
  /\ HeapCount("destroy", "explain", Len(ux.heap)) = 1
  /\ rctx.data_sent


\* the calls of jbr_shutdown the threads other than the one of jbr_start
\* have made or are making
HostCalls(t) == tl[t].calls + (IF tpc[t] \in ShutdownPcs THEN 1 ELSE 0)

\* blocking mode, and all the host has done is to call jbr_shutdown once
\* from another thread while jbr_start was inside the event loop
ShutdownInLoop ==
  /\ opts.enabled
  /\ opts.blocking
  /\ life.loop
  /\ HostCalls("s1") + HostCalls("s2") = 1

\* C24: in blocking mode a jbr_shutdown called from another thread while
\* jbr_start is inside the event loop never frees the struct while the
\* thread of jbr_start can still access it: no access (rc, terminated)
\* happens after the free, and the struct is freed once.
C24_BlockingShutdown ==
  ShutdownInLoop =>
    /\ life.uaf = {}
    /\ life.frees <= 1
    /\ tpc[Main] = "returned" => life.frees = 1


\* the non-blocking jbr_start of an enabled gateway
NonBlocking == opts.enabled /\ ~opts.blocking

\* C25 (states): in non-blocking mode no thread arrives at the start
\* barrier twice or after its destruction, nobody but the parent and the
\* worker arrives, and when the parent has passed it the worker has arrived.
C25_BarrierInv ==
  NonBlocking =>
    /\ \A t \in Threads : barrier.arrived[t] <= 1
    /\ \A t \in Callers : barrier.arrived[t] = 0
    /\ ~barrier.late
    /\ barrier.count <= 2
    /\ barrier.state = "destroyed" =>
         tpc[Worker] = "none" \/ barrier.arrived[Worker] = 1

\* jbr_start has returned
StartReturned == life.ret # ""

\* C25: in non-blocking mode jbr_start always returns: on each of its paths
\* the worker arrives at the barrier of two exactly once, the parent is
\* released, and no thread arrives a second time or after the barrier was
\* destroyed.
C25_StartTerminates == []C25_BarrierInv /\ (NonBlocking ~> StartReturned)

\* the listen succeeded, parent and worker have met at the barrier, the
\* barrier is destroyed and jbr_start has returned success
C25_Witness ==
  /\ NonBlocking
  /\ life.ret = OK
  /\ life.listen = "ok"
  /\ barrier.arrived[Main] = 1
  /\ barrier.arrived[Worker] = 1
  /\ barrier.state = "destroyed"
  /\ tpc[Worker] = "w_loop"

====
